---- MODULE Spec2Model ----
(***************************************************************************)
(* Trip-planning core of UrbanFlow Navigator: the Google Maps service      *)
(* functions (geocoding, directions, nearby search), the weather service   *)
(* and the generateTripPlanFlow orchestration, together with the error     *)
(* mapping TripPlanner.onSubmit applies to a failed orchestration.         *)
(*                                                                         *)
(* Conventions.                                                            *)
(*  - An Error is modelled by its message; a message is a sequence of     *)
(*    text fragments (the literal parts of the template string and the    *)
(*    interpolated values), so prefix tests (startsWith), equality and    *)
(*    containment (includes) are computed on the fragments.               *)
(*  - An optional field is a sequence of length 0 (absent) or 1.           *)
(*  - Coordinates are integers in units of 1e-5 degree (the precision of  *)
(*    the encoded polyline); ratings are integers in tenths of a star.     *)
(***************************************************************************)
EXTENDS Integers, Sequences, FiniteSets, TLC

(***************************************************************************)
(* Bounds of the model.                                                    *)
(***************************************************************************)
MaxStops == 2
MaxPlaces == 7
ExtraPlaces == 2

(***************************************************************************)
(* Messages.                                                               *)
(***************************************************************************)
SERVER_CONFIG_ERROR_MSG == <<"Server Configuration Error: Google Maps API key (GOOGLE_MAPS_API_KEY) is not configured.">>

\* error.message.startsWith(prefix)
startsWith(msg, prefix) == Len(msg) >= 1 /\ msg[1] = prefix

\* originalMessage.includes(part), part a whole message
includes(msg, part) ==
  \E i \in 0..(Len(msg) - Len(part)) :
     \A j \in 1..Len(part) : msg[i + j] = part[j]

\* `${data.error_message || fallback}`
orElse(errorMessage, fallback) == IF errorMessage # <<>> THEN errorMessage ELSE <<fallback>>

Ok(v) == [ok |-> TRUE, val |-> <<v>>, msg |-> <<>>]
Throw(m) == [ok |-> FALSE, val |-> <<>>, msg |-> m]

(***************************************************************************)
(* checkApiKey: throws SERVER_CONFIG_ERROR_MSG when the key is falsy.      *)
(***************************************************************************)
checkApiKey(key) == IF key = "" THEN Throw(SERVER_CONFIG_ERROR_MSG) ELSE Ok("void")

(***************************************************************************)
(* Provider responses.  kind "throw": fetch or response.json() threw an    *)
(* Error whose message is err; kind "json": the body was parsed.           *)
(***************************************************************************)
GeoStatuses == {"OK", "ZERO_RESULTS", "REQUEST_DENIED", "OVER_QUERY_LIMIT", "INVALID_REQUEST", "UNKNOWN_ERROR"}
ErrorMessages == {<<>>, <<"provider error_message">>}
TransportError == <<"fetch failed">>

CoordSF == [lat |-> 3777490, lng |-> -12241940]
CoordLA == [lat |-> 3405220, lng |-> -11824370]

GeoResponses ==
  {[kind |-> "throw", status |-> "", err |-> TransportError, results |-> <<>>]}
  \cup {[kind |-> "json", status |-> s, err |-> e, results |-> <<>>] :
          s \in GeoStatuses, e \in ErrorMessages}
  \cup {[kind |-> "json", status |-> "OK", err |-> <<>>, results |-> rs] :
          rs \in {<<CoordSF>>, <<CoordLA, CoordSF>>}}

(***************************************************************************)
(* getCoordinatesFromAddress, the part after the fetch was issued.         *)
(***************************************************************************)
geocodeThrown(address, resp) ==
  IF resp.kind = "throw" THEN resp.err
  ELSE IF resp.status # "OK" THEN
    IF resp.status = "REQUEST_DENIED" THEN
      <<"Geocoding API Error:", "Request Denied for address", address>>
        \o orElse(resp.err, "Check if the Geocoding API is enabled and authorized for your GOOGLE_MAPS_API_KEY.")
    ELSE IF resp.status = "ZERO_RESULTS" THEN
      <<"Geocoding API Error:", "No results found for address", address, "Please ensure the address is valid.">>
    ELSE IF resp.status = "OVER_QUERY_LIMIT" THEN
      <<"Geocoding API Error:", "Usage limit exceeded.">>
        \o orElse(resp.err, "Check your Google Cloud Console quotas.")
    ELSE <<"Could not geocode address", address, "Status:", resp.status>> \o resp.err
  ELSE IF Len(resp.results) = 0 THEN
    <<"Could not geocode address", address, "Status:", "ZERO_RESULTS (unexpected).">>
  ELSE <<>>

geocodeCatch(m) ==
  IF m = SERVER_CONFIG_ERROR_MSG THEN m
  ELSE IF startsWith(m, "Could not geocode address") \/ startsWith(m, "Geocoding API Error:") THEN m
  ELSE <<"Failed to geocode address:">> \o m

geocodeHandle(address, resp) ==
  LET m == geocodeThrown(address, resp)
  IN IF m # <<>> THEN Throw(geocodeCatch(m)) ELSE Ok(resp.results[1])

\* The whole function: the result and the network requests it issued.
getCoordinatesFromAddress(key, address, resp) ==
  IF ~checkApiKey(key).ok
    THEN [res |-> Throw(checkApiKey(key).msg), net |-> <<>>]
    ELSE [res |-> geocodeHandle(address, resp), net |-> <<"geocode">>]

(***************************************************************************)
(* getAddressFromCoordinates.                                              *)
(***************************************************************************)
RevResponses ==
  {[kind |-> "throw", status |-> "", err |-> TransportError, results |-> <<>>]}
  \cup {[kind |-> "json", status |-> s, err |-> e, results |-> <<>>] :
          s \in GeoStatuses, e \in ErrorMessages}
  \cup {[kind |-> "json", status |-> "OK", err |-> <<>>, results |-> rs] :
          rs \in {<<"1 Market St, San Francisco">>, <<"City Hall, Los Angeles", "Los Angeles, CA">>}}

\* JSON.stringify(coordinate)
stringify(coordinate) ==
  IF coordinate = CoordSF THEN "{lat:37.7749,lng:-122.4194}"
  ELSE IF coordinate = CoordLA THEN "{lat:34.0522,lng:-118.2437}"
  ELSE "{lat,lng}"

reverseThrown(coordinate, resp) ==
  IF resp.kind = "throw" THEN resp.err
  ELSE IF resp.status # "OK" THEN
    IF resp.status = "REQUEST_DENIED" THEN
      <<"Reverse Geocoding API Error:", "Request Denied for coordinates", stringify(coordinate)>>
        \o orElse(resp.err, "Check if the Geocoding API is enabled and authorized for your GOOGLE_MAPS_API_KEY.")
    ELSE IF resp.status = "ZERO_RESULTS" THEN
      <<"Reverse Geocoding API Error:", "No address found for coordinates", stringify(coordinate)>>
    ELSE IF resp.status = "OVER_QUERY_LIMIT" THEN
      <<"Reverse Geocoding API Error:", "Usage limit exceeded.">>
        \o orElse(resp.err, "Check your Google Cloud Console quotas.")
    ELSE <<"Could not reverse geocode coordinates", stringify(coordinate), "Status:", resp.status>> \o resp.err
  ELSE IF Len(resp.results) = 0 THEN
    <<"Could not find address for coordinates", stringify(coordinate), "Status:", "ZERO_RESULTS (unexpected).">>
  ELSE <<>>

reverseCatch(m) ==
  IF m = SERVER_CONFIG_ERROR_MSG THEN m
  ELSE IF startsWith(m, "Could not reverse geocode coordinates") \/ startsWith(m, "Reverse Geocoding API Error:") THEN m
  ELSE <<"Failed to reverse geocode coordinates:">> \o m

getAddressFromCoordinates(key, coordinate, resp) ==
  IF ~checkApiKey(key).ok
    THEN [res |-> Throw(checkApiKey(key).msg), net |-> <<>>]
    ELSE [res |-> LET m == reverseThrown(coordinate, resp)
                  IN IF m # <<>> THEN Throw(reverseCatch(m)) ELSE Ok(resp.results[1]),
          net |-> <<"reverse geocode">>]

(***************************************************************************)
(* findShortestRoute.                                                      *)
(***************************************************************************)
DirStatuses == GeoStatuses \cup {"MAX_WAYPOINTS_EXCEEDED", "NOT_FOUND"}

\* A waypoint string is its prefix and the rest: 'place_id:xyz' is <<"place_id:", "xyz">>.
isValidWaypoint(wp) == Len(wp) >= 1 /\ wp[1] = "place_id:"

\* Variant of the parameter that lists the stops without asking for optimisation.
waypointsParamOfUnoptimized(waypoints) ==
  LET validWaypoints == SelectSeq(waypoints, isValidWaypoint)
  IN IF Len(waypoints) > 0 /\ Len(validWaypoints) > 0
       THEN <<[optimize |-> FALSE, stops |-> validWaypoints]>>
       ELSE <<>>

\* paramsObj.waypoints: absent, or optimize:true followed by the valid waypoints
waypointsParamOf(waypoints) ==
  LET validWaypoints == SelectSeq(waypoints, isValidWaypoint)
  IN IF Len(waypoints) > 0 /\ Len(validWaypoints) > 0
       THEN <<[optimize |-> TRUE, stops |-> validWaypoints]>>
       ELSE <<>>

directionsRequest(origin, destination, waypoints) ==
  [api |-> "directions", origin |-> origin, destination |-> destination,
   waypoints |-> waypointsParamOf(waypoints)]

\* decode(points, 5): the encoded polyline is the sequence of coordinate
\* deltas (in 1e-5 degree); decoding accumulates them.
RECURSIVE decodeFrom(_, _, _)
decodeFrom(points, lat, lng) ==
  IF points = <<>> THEN <<>>
  ELSE LET la == lat + Head(points)[1]
           ln == lng + Head(points)[2]
       IN <<[lat |-> la, lng |-> ln]>> \o decodeFrom(Tail(points), la, ln)

decode(points) == decodeFrom(points, 0, 0)

\* leg.distance?.value || 0
valueOrZero(field) == IF field = <<>> THEN 0 ELSE field[1]

\* Variant of the distance total that reads the first leg only.
sumDistanceOfFirstLeg(legs) == IF legs = <<>> THEN 0 ELSE valueOrZero(Head(legs).distance)

RECURSIVE sumDistance(_)
sumDistance(legs) ==
  IF legs = <<>> THEN 0 ELSE valueOrZero(Head(legs).distance) + sumDistance(Tail(legs))

RECURSIVE sumDuration(_)
sumDuration(legs) ==
  IF legs = <<>> THEN 0 ELSE valueOrZero(Head(legs).duration) + sumDuration(Tail(legs))

directionsThrown(waypoints, resp) ==
  IF resp.kind = "throw" THEN resp.err
  ELSE IF resp.status # "OK" THEN
    IF resp.status = "REQUEST_DENIED" THEN
      <<"Directions API Error:", "Request Denied.">>
        \o orElse(resp.err, "Check if the Directions API is enabled and authorized for your GOOGLE_MAPS_API_KEY.")
    ELSE IF resp.status = "ZERO_RESULTS" /\ Len(waypoints) > 0 THEN
      <<"Directions API Error:", "No route found including the specified waypoints.", "Status:", resp.status>>
    ELSE IF resp.status = "INVALID_REQUEST" THEN
      <<"Directions API Error:", "Invalid Request.">>
        \o orElse(resp.err, "Check origin, destination, and waypoint format.")
    ELSE IF resp.status = "MAX_WAYPOINTS_EXCEEDED" THEN
      <<"Directions API Error:", "Too many waypoints provided.">> \o resp.err
    ELSE IF resp.status = "OVER_QUERY_LIMIT" THEN
      <<"Directions API Error:", "Usage limit exceeded.">>
        \o orElse(resp.err, "Check your Google Cloud Console quotas.")
    ELSE <<"Could not find route.", "Status:", resp.status>> \o resp.err
  ELSE IF Len(resp.routes) = 0 THEN
    <<"Could not find route.", "Status:", "ZERO_RESULTS.">>
  ELSE LET route == resp.routes[1]
       IN IF route.legs = <<>> \/ route.polyline = <<>> \/ route.polyline[1] = <<>> \/ route.bounds = <<>>
            THEN <<"Directions API response missing required fields.">>
            ELSE <<>>

\* Variant of the catch that wraps every failure but the configuration one.
directionsCatchWrapAll(m) ==
  IF m = SERVER_CONFIG_ERROR_MSG THEN m ELSE <<"Failed to fetch directions:">> \o m

directionsCatch(m) ==
  IF m = SERVER_CONFIG_ERROR_MSG THEN m
  ELSE IF startsWith(m, "Could not find route.") \/ startsWith(m, "Directions API Error:") THEN m
  ELSE <<"Failed to fetch directions:">> \o m

\* Variant of the handling that reads the status as if no stop was passed.
directionsHandleIgnoringStops(waypoints, resp) ==
  LET m == directionsThrown(<<>>, resp)
  IN IF m # <<>> THEN Throw(directionsCatch(m))
     ELSE LET route == resp.routes[1]
          IN Ok([path |-> decode(route.polyline[1]),
                 distanceMeters |-> sumDistance(route.legs[1]),
                 durationSeconds |-> sumDuration(route.legs[1]),
                 bounds |-> route.bounds,
                 waypointsOrder |-> route.waypoint_order])

directionsHandle(waypoints, resp) ==
  LET m == directionsThrown(waypoints, resp)
  IN IF m # <<>> THEN Throw(directionsCatch(m))
     ELSE LET route == resp.routes[1]
          IN Ok([path |-> decode(route.polyline[1]),
                 distanceMeters |-> sumDistance(route.legs[1]),
                 durationSeconds |-> sumDuration(route.legs[1]),
                 bounds |-> route.bounds,
                 waypointsOrder |-> route.waypoint_order])

findShortestRoute(key, origin, destination, waypoints, resp) ==
  IF ~checkApiKey(key).ok
    THEN [res |-> Throw(checkApiKey(key).msg), net |-> <<>>]
    ELSE [res |-> directionsHandle(waypoints, resp),
          net |-> <<directionsRequest(origin, destination, waypoints)>>]

(***************************************************************************)
(* findAttractionsNearCoordinate.                                          *)
(***************************************************************************)
PlacesStatuses == GeoStatuses

MinRating == 35
MaxAttractions == 15

placeIdOf(i) == "ChIJ" \o ToString(i)

\* The i-th place of a provider response.  kind "good" is a rated,
\* operational place with a place_id; the other kinds lack one property.
Place(i, kind) ==
  [name |-> "Place " \o ToString(i),
   place_id |-> IF kind = "noid" THEN <<>> ELSE <<placeIdOf(i)>>,
   rating |-> IF kind = "norating" THEN <<>>
              ELSE IF kind = "low" THEN <<34>>
              ELSE IF kind = "threshold" THEN <<35>>
              ELSE <<45>>,
   business_status |-> IF kind = "closed" THEN "CLOSED_TEMPORARILY"
                       ELSE IF kind = "nostatus" THEN ""
                       ELSE "OPERATIONAL",
   vicinity |-> IF kind = "novicinity" \/ kind = "notypes" THEN <<>> ELSE <<"Main St">>,
   types |-> IF kind = "notypes" THEN <<>>
             ELSE <<(<<"tourist_attraction", "point_of_interest", "establishment">>)>>,
   location |-> IF kind = "nogeometry" THEN <<>> ELSE <<CoordSF>>]

PlaceKinds == {"good", "noid", "norating", "low", "threshold", "closed", "nostatus",
               "novicinity", "notypes", "nogeometry"}

\* n places, all good but the j-th (when 1 <= j <= n), which is of kind k.
PlaceList(n, j, k) == [i \in 1..n |-> Place(i, IF i = j THEN k ELSE "good")]

PlaceLists == {PlaceList(n, j, k) : n \in 0..MaxPlaces, j \in 0..MaxPlaces, k \in PlaceKinds \ {"good"}}

PlacesResponsesOver(lists) ==
  {[kind |-> "throw", status |-> "", err |-> TransportError, results |-> <<>>]}
  \cup {[kind |-> "json", status |-> s, err |-> e, results |-> <<>>] :
          s \in PlacesStatuses \ {"OK"}, e \in ErrorMessages}
  \cup {[kind |-> "json", status |-> "OK", err |-> <<>>, results |-> rs] : rs \in lists}

\* Responses longer than the cap on the returned list: MaxAttractions places
\* and up to ExtraPlaces more.
LongPlaceLists ==
  {PlaceList(n, j, k) : n \in MaxAttractions..(MaxAttractions + ExtraPlaces),
                        j \in {0, 1, MaxAttractions}, k \in {"low", "closed"}}

PlacesResponses == PlacesResponsesOver(PlaceLists \cup LongPlaceLists)

\* Variant of the filter that looks at the rating only.
qualifiesByRating(place) ==
  /\ place.rating # <<>>
  /\ place.rating[1] # 0
  /\ place.rating[1] >= MinRating

\* place.rating && place.rating >= 3.5 && place.business_status === 'OPERATIONAL'
qualifies(place) ==
  /\ place.rating # <<>>
  /\ place.rating[1] # 0
  /\ place.rating[1] >= MinRating
  /\ place.business_status = "OPERATIONAL"

\* .slice(0, n)
slice(s, n) == SubSeq(s, 1, IF Len(s) < n THEN Len(s) ELSE n)

\* .replace(/_/g, ' ')
replaceUnderscores(t) ==
  IF t = "tourist_attraction" THEN "tourist attraction"
  ELSE IF t = "point_of_interest" THEN "point of interest"
  ELSE IF t = "art_gallery" THEN "art gallery"
  ELSE t

isDescriptiveType(t) == t # "point_of_interest" /\ t # "establishment"

\* place.vicinity || place.types?.filter(...).join(', ').replace(/_/g, ' ') || 'Notable place'
descriptionOf(place) ==
  IF place.vicinity # <<>> THEN place.vicinity
  ELSE LET ts == IF place.types = <<>> THEN <<>> ELSE SelectSeq(place.types[1], isDescriptiveType)
       IN IF ts # <<>> THEN [i \in 1..Len(ts) |-> replaceUnderscores(ts[i])]
          ELSE <<"Notable place">>

toAttraction(place) ==
  [name |-> place.name,
   description |-> descriptionOf(place),
   location |-> place.location[1],
   placeId |-> place.place_id,
   rating |-> place.rating,
   types |-> place.types]

placesThrown(resp) ==
  IF resp.kind = "throw" THEN resp.err
  ELSE IF resp.status # "OK" /\ resp.status # "ZERO_RESULTS" THEN
    IF resp.status = "REQUEST_DENIED" THEN
      <<"Places API Error:", "Request Denied.">>
        \o orElse(resp.err, "Check if the Places API is enabled and authorized for your GOOGLE_MAPS_API_KEY.")
    ELSE IF resp.status = "INVALID_REQUEST" THEN
      <<"Places API Error:", "Invalid Request.">> \o orElse(resp.err, "Check search parameters.")
    ELSE IF resp.status = "OVER_QUERY_LIMIT" THEN
      <<"Places API Error:", "Usage limit exceeded.">>
        \o orElse(resp.err, "Check your Google Cloud Console quotas.")
    ELSE <<"Places API request failed.", "Status:", resp.status>> \o resp.err
  ELSE IF resp.status = "ZERO_RESULTS" THEN <<>>
  ELSE LET kept == slice(SelectSeq(resp.results, qualifies), MaxAttractions)
       IN IF \E i \in 1..Len(kept) : kept[i].location = <<>>
            THEN <<"Cannot read properties of undefined (reading 'location')">>
            ELSE <<>>

placesCatch(m) ==
  IF m = SERVER_CONFIG_ERROR_MSG THEN m
  ELSE IF startsWith(m, "Places API Error:") THEN m
  ELSE <<"Failed to find attractions:">> \o m

\* Variant of the handling that caps the provider's list before filtering it.
placesHandleCapBeforeFilter(resp) ==
  LET m == placesThrown(resp)
  IN IF m # <<>> THEN Throw(placesCatch(m))
     ELSE IF resp.status = "ZERO_RESULTS" THEN Ok(<<>>)
     ELSE LET kept == SelectSeq(slice(resp.results, MaxAttractions), qualifies)
          IN Ok([i \in 1..Len(kept) |-> toAttraction(kept[i])])

\* Variant of the handling for which an answer of zero results is a failure.
placesHandleZeroResultsFails(resp) ==
  LET m == placesThrown(resp)
  IN IF m # <<>> THEN Throw(placesCatch(m))
     ELSE IF resp.status = "ZERO_RESULTS"
       THEN Throw(<<"Places API Error:", "No places found.", "Status:", resp.status>>)
     ELSE LET kept == slice(SelectSeq(resp.results, qualifies), MaxAttractions)
          IN Ok([i \in 1..Len(kept) |-> toAttraction(kept[i])])

placesHandle(resp) ==
  LET m == placesThrown(resp)
  IN IF m # <<>> THEN Throw(placesCatch(m))
     ELSE IF resp.status = "ZERO_RESULTS" THEN Ok(<<>>)
     ELSE LET kept == slice(SelectSeq(resp.results, qualifies), MaxAttractions)
          IN Ok([i \in 1..Len(kept) |-> toAttraction(kept[i])])

placesRequest(center, radius) == [api |-> "nearbysearch", location |-> center, radius |-> radius]

findAttractionsNearCoordinate(key, center, radius, resp) ==
  IF ~checkApiKey(key).ok
    THEN [res |-> Throw(checkApiKey(key).msg), net |-> <<>>]
    ELSE [res |-> placesHandle(resp), net |-> <<placesRequest(center, radius)>>]

(***************************************************************************)
(* findAttractionsNearRoute.                                               *)
(***************************************************************************)
BoxPoint == [northeast |-> [lat |-> 3750000, lng |-> -12250000], southwest |-> [lat |-> 3750000, lng |-> -12250000]]
BoxCity == [northeast |-> [lat |-> 3782000, lng |-> -12236000], southwest |-> [lat |-> 3770000, lng |-> -12252000]]
BoxBay == [northeast |-> [lat |-> 3720000, lng |-> -12240000], southwest |-> [lat |-> 3700000, lng |-> -12260000]]
BoxSFLA == [northeast |-> [lat |-> 3780000, lng |-> -11820000], southwest |-> [lat |-> 3400000, lng |-> -12250000]]
Boxes == {BoxPoint, BoxCity, BoxBay, BoxSFLA}

\* R * c of the Haversine formula for the corners of the box, in metres
\* (the values the formula gives for the boxes of the model).
diagonalDistance(bounds) ==
  IF bounds = BoxPoint THEN 0
  ELSE IF bounds = BoxCity THEN 19388
  ELSE IF bounds = BoxBay THEN 28446
  ELSE 573049

FallbackRadius == 20000
MinRadius == 10000
MaxRadius == 50000

Min(a, b) == IF a < b THEN a ELSE b
Max(a, b) == IF a > b THEN a ELSE b

\* Variant of the radius without the clamp.
radiusOfUnclamped(bounds) == (10 * diagonalDistance(bounds) + 9) \div 18

\* Math.round(Math.min(Math.max(diagonalDistance / 1.8, 10000), 50000))
radiusOf(bounds) ==
  Min(Max((10 * diagonalDistance(bounds) + 9) \div 18, MinRadius), MaxRadius)

centerOf(bounds) ==
  [lat |-> (bounds.northeast.lat + bounds.southwest.lat) \div 2,
   lng |-> (bounds.northeast.lng + bounds.southwest.lng) \div 2]

\* Variant of the search that falls back to the first point of the path.
routeSearchFromStart(route) ==
  IF route.bounds = <<>> THEN
    IF Len(route.path) > 0
      THEN <<[center |-> route.path[1], radius |-> FallbackRadius]>>
      ELSE <<>>
  ELSE <<[center |-> centerOf(route.bounds[1]), radius |-> radiusOf(route.bounds[1])]>>

\* The search findAttractionsNearRoute delegates to findAttractionsNearCoordinate,
\* or none when the route has neither bounds nor a path point.
routeSearch(route) ==
  IF route.bounds = <<>> THEN
    IF Len(route.path) > 0
      THEN <<[center |-> route.path[(Len(route.path) \div 2) + 1], radius |-> FallbackRadius]>>
      ELSE <<>>
  ELSE <<[center |-> centerOf(route.bounds[1]), radius |-> radiusOf(route.bounds[1])]>>

\* Variant of the catch around the delegated search that swallows every failure.
routeCatchSwallowAll(res) == IF res.ok THEN res ELSE Ok(<<>>)

\* Variant of the catch around the delegated search that re-throws every failure.
routeCatchRethrow(res) == res

\* catch around the delegated search: only the configuration error propagates
routeCatch(res) ==
  IF res.ok THEN res
  ELSE IF res.msg = SERVER_CONFIG_ERROR_MSG THEN res
  ELSE Ok(<<>>)

\* Variant that checks the key before it looks at the route.
findAttractionsNearRouteKeyFirst(key, route, resp) ==
  LET search == routeSearch(route)
  IN IF ~checkApiKey(key).ok THEN [res |-> Throw(checkApiKey(key).msg), net |-> <<>>]
     ELSE IF search = <<>> THEN [res |-> Ok(<<>>), net |-> <<>>]
     ELSE LET inner == findAttractionsNearCoordinate(key, search[1].center, search[1].radius, resp)
          IN [res |-> routeCatch(inner.res), net |-> inner.net]

findAttractionsNearRoute(key, route, resp) ==
  LET search == routeSearch(route)
  IN IF search = <<>> THEN [res |-> Ok(<<>>), net |-> <<>>]
     ELSE LET inner == findAttractionsNearCoordinate(key, search[1].center, search[1].radius, resp)
          IN [res |-> routeCatch(inner.res), net |-> inner.net]

(***************************************************************************)
(* getWeatherForecast: returns a fixed forecast for every location.        *)
(***************************************************************************)
getWeatherForecast(location) ==
  [currentTemperatureCelsius |-> 23,
   conditions |-> "Partly Cloudy",
   fiveDayOutlook |->
     <<[date |-> "2024-07-29", temperatureCelsius |-> 25, conditions |-> "Sunny"],
       [date |-> "2024-07-30", temperatureCelsius |-> 27, conditions |-> "Sunny"],
       [date |-> "2024-07-31", temperatureCelsius |-> 26, conditions |-> "Cloudy"],
       [date |-> "2024-08-01", temperatureCelsius |-> 24, conditions |-> "Rainy"],
       [date |-> "2024-08-02", temperatureCelsius |-> 23, conditions |-> "Partly Cloudy"]>>]

(***************************************************************************)
(* generateTripPlanFlow: inputs, upstream responses and summarising.       *)
(***************************************************************************)
StopIds == {"", placeIdOf(1), placeIdOf(2)}

\* input.waypoints: absent, or a list of place ids
WaypointInputs == {<<>>} \cup {<<ws>> : ws \in UNION {[1..n -> StopIds] : n \in 0..MaxStops}}

Inputs ==
  {[originAddress |-> "San Francisco, CA",
    destinationAddress |-> "Los Angeles, CA",
    departureTime |-> "2024-08-03T10:00:00.000Z",
    waypoints |-> w] : w \in WaypointInputs}

Leg(distance, duration) == [distance |-> distance, duration |-> duration]

RouteDirect ==
  [legs |-> <<(<<Leg(<<615000>>, <<21000>>)>>)>>,
   polyline |-> <<(<<(<<3777490, -12241940>>), <<-200000, 200000>>, <<-172270, 217570>>>>)>>,
   bounds |-> <<BoxSFLA>>,
   waypoint_order |-> <<>>]

RouteViaStops ==
  [legs |-> <<(<<Leg(<<1499>>, <<89>>), Leg(<<2500>>, <<>>), Leg(<<>>, <<60>>)>>)>>,
   polyline |-> <<(<<(<<3777490, -12241940>>), <<-1000, 1000>>>>)>>,
   bounds |-> <<BoxCity>>,
   waypoint_order |-> <<(<<1, 0>>)>>]

MalformedRoutes ==
  {[RouteDirect EXCEPT !.legs = <<>>],
   [RouteDirect EXCEPT !.polyline = <<>>],
   [RouteDirect EXCEPT !.polyline = <<(<<>>)>>],
   [RouteDirect EXCEPT !.bounds = <<>>]}

OrchRawRoutes == {RouteDirect, RouteViaStops} \cup MalformedRoutes

DirResponsesOver(rawRoutes) ==
  {[kind |-> "throw", status |-> "", err |-> TransportError, routes |-> <<>>]}
  \cup {[kind |-> "json", status |-> s, err |-> e, routes |-> <<>>] :
          s \in DirStatuses, e \in ErrorMessages}
  \cup {[kind |-> "json", status |-> "OK", err |-> <<>>, routes |-> <<rt>>] : rt \in rawRoutes}

OrchDirResponses == DirResponsesOver(OrchRawRoutes)

OrchPlaceLists ==
  {PlaceList(n, j, k) : n \in 0..MaxPlaces, j \in {0, 1, MaxPlaces - 1}, k \in {"noid", "low", "notypes"}}

OrchPlacesResponses == PlacesResponsesOver(OrchPlaceLists)

\* What generateTripPlanPrompt gives back: it throws, or resolves to {output}
\* where output may be null and either field may be missing or empty.
SuggestedTimes == {<<>>, <<"">>, <<"2024-08-03T09:30:00.000Z">>}
Reasonings == {<<>>, <<"">>, <<"Leave before the morning peak.">>}

EngineResponses ==
  {[kind |-> "throw", err |-> <<"Schema validation failed.">>, output |-> <<>>],
   [kind |-> "ok", err |-> <<>>, output |-> <<>>]}
  \cup {[kind |-> "ok", err |-> <<>>,
         output |-> <<[suggestedDepartureTime |-> t, reasoning |-> g]>>] :
          t \in SuggestedTimes, g \in Reasonings}

\* input.waypoints?.map(id => `place_id:${id}`) || []
waypointsParam(input) ==
  IF input.waypoints = <<>> THEN <<>>
  ELSE [i \in 1..Len(input.waypoints[1]) |-> <<"place_id:", input.waypoints[1][i]>>]

\* Math.round(x / d) for x >= 0
roundDiv(x, d) == (2 * x + d) \div (2 * d)

\* new Date(day.date).toLocaleDateString(undefined, { weekday: 'short' })
weekdayShort(date) ==
  IF date = "2024-07-29" THEN "Mon"
  ELSE IF date = "2024-07-30" THEN "Tue"
  ELSE IF date = "2024-07-31" THEN "Wed"
  ELSE IF date = "2024-08-01" THEN "Thu"
  ELSE IF date = "2024-08-02" THEN "Fri"
  ELSE "Invalid Date"

outlookSummary(fiveDayOutlook) ==
  IF fiveDayOutlook = <<>> THEN <<"No outlook available.">>
  ELSE [i \in 1..Len(fiveDayOutlook) |->
          <<weekdayShort(fiveDayOutlook[i].date), fiveDayOutlook[i].conditions>>]

\* att.placeId || ''
placeIdOrEmpty(att) == IF att.placeId = <<>> THEN "" ELSE att.placeId[1]

\* !input.waypoints?.includes(att.placeId || '')
notSelectedAsWaypoint(input, att) ==
  \/ input.waypoints = <<>>
  \/ \A i \in 1..Len(input.waypoints[1]) : input.waypoints[1][i] # placeIdOrEmpty(att)

MaxPromptAttractions == 5

\* att.types?.[0]?.replace(/_/g, ' ')
primaryType(att) ==
  IF att.types = <<>> \/ att.types[1] = <<>> THEN <<>>
  ELSE <<replaceUnderscores(att.types[1][1])>>

promptAttractions(input, nearbyAttractions) ==
  LET keep(att) == notSelectedAsWaypoint(input, att)
      kept == slice(SelectSeq(nearbyAttractions, keep), MaxPromptAttractions)
  IN [i \in 1..Len(kept) |->
        [name |-> kept[i].name, type |-> primaryType(kept[i]), rating |-> kept[i].rating]]

\* Variant of the flag that is set whenever a stop list is present.
hasWaypointsWhenPresent(input) == input.waypoints # <<>>

hasWaypoints(input) == input.waypoints # <<>> /\ Len(input.waypoints[1]) > 0

buildPromptInput(input, route, weatherForecast, nearbyAttractions) ==
  [originAddress |-> input.originAddress,
   destinationAddress |-> input.destinationAddress,
   desiredDepartureTime |-> input.departureTime,
   routeInfo |-> [distanceKm |-> roundDiv(route.distanceMeters, 1000),
                  durationMinutes |-> roundDiv(route.durationSeconds, 60),
                  hasWaypoints |-> hasWaypoints(input)],
   weatherForecast |-> [currentTemperatureCelsius |-> weatherForecast.currentTemperatureCelsius,
                        currentConditions |-> weatherForecast.conditions,
                        outlookSummary |-> outlookSummary(weatherForecast.fiveDayOutlook)],
   attractions |-> promptAttractions(input, nearbyAttractions)]

\* Variant of the output check that forgets the reasoning field.
outputInvalidTimeOnly(output) ==
  \/ output = <<>>
  \/ output[1].suggestedDepartureTime = <<>> \/ output[1].suggestedDepartureTime[1] = ""

\* !output?.suggestedDepartureTime || !output?.reasoning
outputInvalid(output) ==
  \/ output = <<>>
  \/ output[1].suggestedDepartureTime = <<>> \/ output[1].suggestedDepartureTime[1] = ""
  \/ output[1].reasoning = <<>> \/ output[1].reasoning[1] = ""

AI_FAILED_MSG == <<"AI failed to generate a valid suggestion or reasoning.">>

\* Variant of the assembly that returns the attractions as summarised for the engine.
assembleFiltered(input, output, route, weatherForecast, nearbyAttractions) ==
  LET keep(att) == notSelectedAsWaypoint(input, att)
  IN [originAddress |-> input.originAddress,
      destinationAddress |-> input.destinationAddress,
      suggestedDepartureTime |-> output.suggestedDepartureTime,
      reasoning |-> output.reasoning,
      route |-> route,
      weatherForecast |-> weatherForecast,
      nearbyAttractions |-> slice(SelectSeq(nearbyAttractions, keep), MaxPromptAttractions)]

\* Variant of the assembly that answers with the requested departure time.
assembleWithRequestedTime(input, output, route, weatherForecast, nearbyAttractions) ==
  [originAddress |-> input.originAddress,
   destinationAddress |-> input.destinationAddress,
   suggestedDepartureTime |-> <<input.departureTime>>,
   reasoning |-> output.reasoning,
   route |-> route,
   weatherForecast |-> weatherForecast,
   nearbyAttractions |-> nearbyAttractions]

\* Variant of the assembly that answers with the route as summarised for the engine.
assembleSummarised(input, output, route, weatherForecast, nearbyAttractions) ==
  [originAddress |-> input.originAddress,
   destinationAddress |-> input.destinationAddress,
   suggestedDepartureTime |-> output.suggestedDepartureTime,
   reasoning |-> output.reasoning,
   route |-> [route EXCEPT !.distanceMeters = 1000 * roundDiv(route.distanceMeters, 1000),
                           !.durationSeconds = 60 * roundDiv(route.durationSeconds, 60)],
   weatherForecast |-> weatherForecast,
   nearbyAttractions |-> nearbyAttractions]

assemble(input, output, route, weatherForecast, nearbyAttractions) ==
  [originAddress |-> input.originAddress,
   destinationAddress |-> input.destinationAddress,
   suggestedDepartureTime |-> output.suggestedDepartureTime,
   reasoning |-> output.reasoning,
   route |-> route,
   weatherForecast |-> weatherForecast,
   nearbyAttractions |-> nearbyAttractions]

\* Variant of the flow's catch that drops the cause.
flowCatchUnknown(m) == <<"An unknown error occurred during trip plan generation.">>

\* catch of the flow: every Error is re-thrown with the flow's prefix
flowCatch(m) == <<"Trip plan generation failed:">> \o m

(***************************************************************************)
(* The page and its components.  A component's state is a record of its    *)
(* useState and useRef cells; a handler is an operator from the state      *)
(* before to the state after.                                              *)
(***************************************************************************)
MaxFetches == 5
MaxWatches == 3

\* --- Home ---------------------------------------------------------------
\* Variant of the delivery that leaves a running navigation on.
handlePlanGeneratedKeepingNavigation(home, plan) == [home EXCEPT !.tripPlan = plan]

handlePlanGenerated(home, plan) == [home EXCEPT !.tripPlan = plan, !.isNavigating = FALSE]

handleStartNavigation(home) ==
  IF home.tripPlan # <<>> THEN [home EXCEPT !.isNavigating = TRUE] ELSE home

handleStopNavigation(home) == [home EXCEPT !.isNavigating = FALSE]

\* key={tripPlan?.suggestedDepartureTime || 'map'}
mapKey(home) ==
  IF home.tripPlan = <<>> THEN "map"
  ELSE LET t == home.tripPlan[1].suggestedDepartureTime
       IN IF t = <<>> \/ t[1] = "" THEN "map" ELSE t[1]

\* --- MapComponent and navigator.geolocation -----------------------------
\* map is whether useMap() has returned the instance; isNavigating is the
\* prop as of the last run of the effect; cleanup is whether that run
\* returned the cleanup function.  The browser's geolocation is a record
\* of its support, the ids of the active watches and the next id it issues.
MountedMap(isNavigating) ==
  [map |-> FALSE, isNavigating |-> isNavigating, currentLocation |-> <<>>,
   geolocationError |-> <<>>, watchIdRef |-> <<>>, cleanup |-> FALSE]

\* Variant of the cleanup that forgets the watch without clearing it.
watchCleanupForgetting(m, geo) ==
  IF m.cleanup /\ m.watchIdRef # <<>>
    THEN [m |-> [m EXCEPT !.watchIdRef = <<>>, !.currentLocation = <<>>, !.cleanup = FALSE], geo |-> geo]
    ELSE [m |-> [m EXCEPT !.cleanup = FALSE], geo |-> geo]

\* The cleanup function returned by the effect, when the last run returned one.
watchCleanup(m, geo) ==
  IF m.cleanup /\ m.watchIdRef # <<>>
    THEN [m |-> [m EXCEPT !.watchIdRef = <<>>, !.currentLocation = <<>>, !.cleanup = FALSE],
          geo |-> [geo EXCEPT !.watches = @ \ {m.watchIdRef[1]}]]
    ELSE [m |-> [m EXCEPT !.cleanup = FALSE], geo |-> geo]

\* The body of the geolocation effect, run with the given dependencies.
watchBody(m, geo, isNavigating, map) ==
  LET m0 == [m EXCEPT !.isNavigating = isNavigating, !.map = map]
  IN IF ~map THEN [m |-> m0, geo |-> geo]
     ELSE IF isNavigating THEN
       IF ~geo.supported
         THEN [m |-> [m0 EXCEPT !.geolocationError = <<(<<"Geolocation is not supported by your browser.">>)>>],
               geo |-> geo]
         ELSE [m |-> [m0 EXCEPT !.geolocationError = <<>>, !.watchIdRef = <<geo.nextId>>, !.cleanup = TRUE],
               geo |-> [geo EXCEPT !.watches = @ \cup {geo.nextId}, !.nextId = @ + 1]]
     ELSE [m |-> [m0 EXCEPT !.watchIdRef = <<>>, !.currentLocation = <<>>, !.geolocationError = <<>>],
           geo |-> IF m0.watchIdRef # <<>> THEN [geo EXCEPT !.watches = @ \ {m0.watchIdRef[1]}] ELSE geo]

\* The effect re-run after a change of [isNavigating, map]: the previous
\* run's cleanup, then the body.
watchEffect(m, geo, isNavigating, map) ==
  LET c == watchCleanup(m, geo) IN watchBody(c.m, c.geo, isNavigating, map)

\* error callback of watchPosition
onPositionError(m, geo, code) ==
  LET message == IF code = "PERMISSION_DENIED"
                   THEN <<"Location permission denied. Please enable it in your browser settings.">>
                 ELSE IF code = "POSITION_UNAVAILABLE" THEN <<"Location information is unavailable.">>
                 ELSE IF code = "TIMEOUT" THEN <<"The request to get user location timed out.">>
                 ELSE <<"An unknown error occurred", "(unknown)">>
      m0 == [m EXCEPT !.geolocationError = <<message>>, !.currentLocation = <<>>]
  IN IF m0.watchIdRef # <<>> /\ m0.watchIdRef[1] # 0 /\ code \in {"PERMISSION_DENIED", "POSITION_UNAVAILABLE"}
       THEN [m |-> [m0 EXCEPT !.watchIdRef = <<>>], geo |-> [geo EXCEPT !.watches = @ \ {m0.watchIdRef[1]}]]
       ELSE [m |-> m0, geo |-> geo]

\* --- WeatherDisplay -----------------------------------------------------
\* inflight is the number of fetchWeather calls that await
\* getWeatherForecast; fetchesStarted and refreshClicks count the calls of
\* fetchWeather and of handleRefresh.  The toasts are not part of the state.
\* fetchWeather up to its await
fetchWeather(w) ==
  [w EXCEPT !.loading = TRUE, !.error = <<>>, !.inflight = @ + 1, !.fetchesStarted = @ + 1]

handleRefresh(w) == fetchWeather([w EXCEPT !.refreshClicks = @ + 1])

\* --- TripPlanner --------------------------------------------------------
\* calls holds, for every onSubmit that awaits generateTripPlan, the
\* argument of the call and the selectedWaypoints that onSubmit closed over.
\* Variant of the submit button that stays enabled while a plan is loading.
submitAlwaysEnabled(p) == TRUE

\* the submit button: disabled={loadingPlan || loadingLocation}
submitEnabled(p) == ~p.loadingPlan

\* The calls under way without the i-th.
settled(calls, i) == [k \in 1..(Len(calls) - 1) |-> IF k < i THEN calls[k] ELSE calls[k + 1]]

\* new Date(departureTime).toISOString() in a UTC browser; <<>> when the
\* text is no date
departureISO(departureTime) ==
  IF departureTime = "2024-08-03T10:00" THEN <<"2024-08-03T10:00:00.000Z">> ELSE <<>>

\* handleWaypointChange
handleWaypointChange(prev, checked, placeId) ==
  IF checked THEN Append(prev, placeId)
  ELSE LET other(id) == id # placeId IN SelectSeq(prev, other)

\* onSubmit up to the try block: the component after the state updates and
\* the plan handed to onPlanGenerated, which on an update is the displayed
\* plan with an empty route path
submitStarted(p) ==
  LET isUpdate == Len(p.selectedWaypoints) > 0
  IN IF ~isUpdate
       THEN [p |-> [p EXCEPT !.loadingPlan = TRUE, !.error = <<>>, !.tripPlan = <<>>,
                             !.selectedWaypoints = <<>>],
             plan |-> <<>>]
       ELSE [p |-> [p EXCEPT !.loadingPlan = TRUE, !.error = <<>>],
             plan |-> IF p.tripPlan # <<>> THEN <<[p.tripPlan[1] EXCEPT !.route.path = <<>>]>> ELSE <<>>]

\* What generateTripPlan can resolve with: plans assembled by the flow for
\* the input, with or without attractions.
PlansFor(input) ==
  {assemble(input,
            [suggestedDepartureTime |-> <<t>>, reasoning |-> <<"Leave before the morning peak.">>],
            directionsHandle(<<>>, [kind |-> "json", status |-> "OK", err |-> <<>>,
                                    routes |-> <<RouteDirect>>]).val[1],
            getWeatherForecast(CoordSF),
            attractions) :
     t \in {"2024-08-03T09:30:00.000Z", "2024-08-03T10:15:00.000Z"},
     attractions \in {<<>>, <<toAttraction(Place(1, "good")), toAttraction(Place(2, "good")),
                              toAttraction(Place(3, "noid"))>>}}

(***************************************************************************)
(* State.                                                                  *)
(*  API_KEY  process.env.GOOGLE_MAPS_API_KEY as read when the service      *)
(*           module is loaded ("" when unset)                              *)
(*  OPENWEATHERMAP_API_KEY  the weather credential of the environment     *)
(*           ("" when unset); no code reads it                             *)
(*  run      the invocations of generateTripPlanFlow: position, input,     *)
(*           locals, outcome, the calls and network requests made and the  *)
(*           responses received from upstream                              *)
(*  svc      the last direct call of a service function and its outcome    *)
(*  home     the page: the plan it holds and whether navigation runs       *)
(*  planner  TripPlanner: displayed plan, flags, message, selected stops   *)
(*           and the generateTripPlan call it awaits                       *)
(*  mapComponent  MapComponent: the geolocation effect's cells             *)
(*  geolocation   navigator.geolocation: support and the active watches    *)
(*  weatherDisplay  WeatherDisplay: forecast, flags and fetches under way  *)
(***************************************************************************)
VARIABLES API_KEY, OPENWEATHERMAP_API_KEY, run, svc,
          home, planner, mapComponent, geolocation, weatherDisplay

vars == <<API_KEY, OPENWEATHERMAP_API_KEY, run, svc,
          home, planner, mapComponent, geolocation, weatherDisplay>>

uiVars == <<home, planner, mapComponent, geolocation, weatherDisplay>>

RunIds == {1, 2}

IdleRun ==
  [pc |-> "idle", input |-> <<>>, originCoord |-> <<>>, destinationCoord |-> <<>>,
   route |-> <<>>, weatherForecast |-> <<>>, nearbyAttractions |-> <<>>,
   promptInput |-> <<>>, output |-> <<>>, result |-> <<>>, thrown |-> <<>>, error |-> <<>>,
   calls |-> <<>>, net |-> <<>>, responses |-> <<>>]

NoCall == [op |-> "none", arg |-> <<>>, resp |-> <<>>, res |-> Ok("void"), net |-> <<>>]

Keys == {"", "AIza-key"}
WeatherKeys == {"", "owm-key"}

\* The page as mounted in a browser with or without geolocation, whose
\* first watch id is first: no plan, the map component without its map
\* instance, and WeatherDisplay with the fetch of its mount effect under way.
Mounted(supported, first) ==
  /\ home = [tripPlan |-> <<>>, isNavigating |-> FALSE]
  /\ planner = [tripPlan |-> <<>>, loadingPlan |-> FALSE, error |-> <<>>, selectedWaypoints |-> <<>>,
                calls |-> <<>>]
  /\ mapComponent = MountedMap(FALSE)
  /\ geolocation = [supported |-> supported, watches |-> {}, nextId |-> first]
  /\ weatherDisplay = fetchWeather([weatherData |-> <<>>, loading |-> TRUE, error |-> <<>>,
                                    inflight |-> 0, fetchesStarted |-> 0, refreshClicks |-> 0])

Init ==
  /\ API_KEY \in Keys
  /\ OPENWEATHERMAP_API_KEY \in WeatherKeys
  /\ run = [r \in RunIds |-> IdleRun]
  /\ svc = NoCall
  /\ Mounted(TRUE, 1)

\* Variant of the catch block that answers with a fallback plan.
FailedWithFallbackPlan(r, m) ==
  [run[r] EXCEPT !.pc = "assembled", !.thrown = m,
                 !.result = <<[originAddress |-> run[r].input[1].originAddress,
                               destinationAddress |-> run[r].input[1].destinationAddress,
                               suggestedDepartureTime |-> <<run[r].input[1].departureTime>>,
                               reasoning |-> m,
                               route |-> run[r].route,
                               weatherForecast |-> run[r].weatherForecast,
                               nearbyAttractions |-> <<>>]>>]

\* Variant of the catch block that neither returns nor re-throws.
FailedPending(r, m) == [run[r] EXCEPT !.pc = "catch", !.thrown = m]

\* Variant of the catch block that numbers the failures with a counter kept
\* at module level.
FailedNumbered(r, m) ==
  [run[r] EXCEPT !.pc = "failed", !.thrown = m,
                 !.error = flowCatch(m) \o <<ToString(Cardinality({q \in RunIds : run[q].pc = "failed"}))>>]

\* The flow's catch block: the invocation rejects with the wrapped message.
Failed(r, m) == [run[r] EXCEPT !.pc = "failed", !.thrown = m, !.error = flowCatch(m)]

\* Entries of run[r].calls: a call of an upstream function, or its return
\* (ok: it resolved; status: the provider status behind the outcome).
CallEv(fn) == [ev |-> "call", fn |-> fn, ok |-> TRUE, status |-> ""]
ReturnEv(fn, ok, status) == [ev |-> "return", fn |-> fn, ok |-> ok, status |-> status]
statusOf(resp) == IF resp.kind = "throw" THEN "throw" ELSE resp.status

Logged(f, evs) == [f EXCEPT !.calls = @ \o evs]

\* What the provider behind fn answered to this invocation's request.
Received(f, fn, resp) == [f EXCEPT !.responses = Append(@, [fn |-> fn, resp |-> resp])]

Invoke(r) ==
  /\ run[r].pc = "idle"
  /\ \E input \in Inputs :
       run' = [run EXCEPT ![r] = [@ EXCEPT !.pc = "geocode_origin", !.input = <<input>>]]
  /\ UNCHANGED <<API_KEY, OPENWEATHERMAP_API_KEY, svc, uiVars>>

\* getCoordinatesFromAddress up to its fetch
GeocodeCall(r, at, fn, waiting) ==
  /\ run[r].pc = at
  /\ run' = [run EXCEPT ![r] =
       IF ~checkApiKey(API_KEY).ok
         THEN Logged(Failed(r, checkApiKey(API_KEY).msg), <<CallEv(fn), ReturnEv(fn, FALSE, "unconfigured")>>)
         ELSE [Logged(@, <<CallEv(fn)>>) EXCEPT !.pc = waiting, !.net = Append(@, "geocode")]]
  /\ UNCHANGED <<API_KEY, OPENWEATHERMAP_API_KEY, svc, uiVars>>

GeocodeOriginCall(r) ==
  GeocodeCall(r, "geocode_origin", "getCoordinatesFromAddress:origin", "await_origin")

\* Variant of the origin geocode that is issued again after a failure.
GeocodeOriginReturnRetrying(r) ==
  /\ run[r].pc = "await_origin"
  /\ \E resp \in GeoResponses :
       LET res == geocodeHandle(run[r].input[1].originAddress, resp)
           ev == <<ReturnEv("getCoordinatesFromAddress:origin", res.ok, statusOf(resp))>>
       IN run' = [run EXCEPT ![r] = Received(
            IF res.ok THEN [Logged(@, ev) EXCEPT !.pc = "geocode_destination", !.originCoord = res.val]
            ELSE [Logged(@, ev) EXCEPT !.pc = "geocode_origin"],
              "getCoordinatesFromAddress:origin", resp)]
  /\ UNCHANGED <<API_KEY, OPENWEATHERMAP_API_KEY, svc, uiVars>>

GeocodeOriginReturn(r) ==
  /\ run[r].pc = "await_origin"
  /\ \E resp \in GeoResponses :
       LET res == geocodeHandle(run[r].input[1].originAddress, resp)
           ev == <<ReturnEv("getCoordinatesFromAddress:origin", res.ok, statusOf(resp))>>
       IN run' = [run EXCEPT ![r] = Received(
            IF res.ok THEN [Logged(@, ev) EXCEPT !.pc = "geocode_destination", !.originCoord = res.val]
            ELSE Logged(Failed(r, res.msg), ev),
              "getCoordinatesFromAddress:origin", resp)]
  /\ UNCHANGED <<API_KEY, OPENWEATHERMAP_API_KEY, svc, uiVars>>

GeocodeDestinationCall(r) ==
  GeocodeCall(r, "geocode_destination", "getCoordinatesFromAddress:destination", "await_destination")

GeocodeDestinationReturn(r) ==
  /\ run[r].pc = "await_destination"
  /\ \E resp \in GeoResponses :
       LET res == geocodeHandle(run[r].input[1].destinationAddress, resp)
           ev == <<ReturnEv("getCoordinatesFromAddress:destination", res.ok, statusOf(resp))>>
       IN run' = [run EXCEPT ![r] = Received(
            IF res.ok THEN [Logged(@, ev) EXCEPT !.pc = "route", !.destinationCoord = res.val]
            ELSE Logged(Failed(r, res.msg), ev),
              "getCoordinatesFromAddress:destination", resp)]
  /\ UNCHANGED <<API_KEY, OPENWEATHERMAP_API_KEY, svc, uiVars>>

\* findShortestRoute up to its fetch
RouteCall(r) ==
  /\ run[r].pc = "route"
  /\ run' = [run EXCEPT ![r] =
       IF ~checkApiKey(API_KEY).ok
         THEN Logged(Failed(r, checkApiKey(API_KEY).msg),
                     <<CallEv("findShortestRoute"), ReturnEv("findShortestRoute", FALSE, "unconfigured")>>)
         ELSE [Logged(@, <<CallEv("findShortestRoute")>>) EXCEPT
                 !.pc = "await_route",
                 !.net = Append(@, directionsRequest(run[r].originCoord[1], run[r].destinationCoord[1],
                                                     waypointsParam(run[r].input[1])))]]
  /\ UNCHANGED <<API_KEY, OPENWEATHERMAP_API_KEY, svc, uiVars>>

\* Variant of the route step that keeps the route in a variable of the
\* module, which every invocation reads.
RouteReturnShared(r) ==
  /\ run[r].pc = "await_route"
  /\ \E resp \in OrchDirResponses :
       LET res == directionsHandle(waypointsParam(run[r].input[1]), resp)
           ev == <<ReturnEv("findShortestRoute", res.ok, statusOf(resp))>>
       IN run' = [q \in RunIds |->
            IF q = r
              THEN Received(IF res.ok THEN [Logged(run[r], ev) EXCEPT !.pc = "weather", !.route = res.val]
                            ELSE Logged(Failed(r, res.msg), ev),
                            "findShortestRoute", resp)
              ELSE [run[q] EXCEPT !.route = res.val]]
  /\ UNCHANGED <<API_KEY, OPENWEATHERMAP_API_KEY, svc, uiVars>>

RouteReturn(r) ==
  /\ run[r].pc = "await_route"
  /\ \E resp \in OrchDirResponses :
       LET res == directionsHandle(waypointsParam(run[r].input[1]), resp)
           ev == <<ReturnEv("findShortestRoute", res.ok, statusOf(resp))>>
       IN run' = [run EXCEPT ![r] = Received(
            IF res.ok THEN [Logged(@, ev) EXCEPT !.pc = "weather", !.route = res.val]
            ELSE Logged(Failed(r, res.msg), ev),
              "findShortestRoute", resp)]
  /\ UNCHANGED <<API_KEY, OPENWEATHERMAP_API_KEY, svc, uiVars>>

WeatherCall(r) ==
  /\ run[r].pc = "weather"
  /\ run' = [run EXCEPT ![r] = [Logged(@, <<CallEv("getWeatherForecast")>>) EXCEPT !.pc = "await_weather"]]
  /\ UNCHANGED <<API_KEY, OPENWEATHERMAP_API_KEY, svc, uiVars>>

WeatherReturn(r) ==
  /\ run[r].pc = "await_weather"
  /\ run' = [run EXCEPT ![r] =
       [Logged(@, <<ReturnEv("getWeatherForecast", TRUE, "")>>) EXCEPT
          !.pc = "attractions",
          !.weatherForecast = <<getWeatherForecast(run[r].originCoord[1])>>]]
  /\ UNCHANGED <<API_KEY, OPENWEATHERMAP_API_KEY, svc, uiVars>>

\* findAttractionsNearRoute up to the fetch of the delegated search
AttractionsCall(r) ==
  /\ run[r].pc = "attractions"
  /\ LET search == routeSearch(run[r].route[1])
         outer == "findAttractionsNearRoute"
         inner == "findAttractionsNearCoordinate"
     IN run' = [run EXCEPT ![r] =
          IF search = <<>>
            THEN [Logged(@, <<CallEv(outer), ReturnEv(outer, TRUE, "")>>) EXCEPT
                    !.pc = "prompt", !.nearbyAttractions = <<(<<>>)>>]
          ELSE IF ~checkApiKey(API_KEY).ok
            THEN Logged(Failed(r, checkApiKey(API_KEY).msg),
                        <<CallEv(outer), CallEv(inner), ReturnEv(inner, FALSE, "unconfigured"),
                          ReturnEv(outer, FALSE, "unconfigured")>>)
            ELSE [Logged(@, <<CallEv(outer), CallEv(inner)>>) EXCEPT
                    !.pc = "await_attractions",
                    !.net = Append(@, placesRequest(search[1].center, search[1].radius))]]
  /\ UNCHANGED <<API_KEY, OPENWEATHERMAP_API_KEY, svc, uiVars>>

AttractionsReturn(r) ==
  /\ run[r].pc = "await_attractions"
  /\ \E resp \in OrchPlacesResponses :
       LET found == placesHandle(resp)
           res == routeCatch(found)
           ev == <<ReturnEv("findAttractionsNearCoordinate", found.ok, statusOf(resp)),
                   ReturnEv("findAttractionsNearRoute", res.ok, statusOf(resp))>>
       IN run' = [run EXCEPT ![r] = Received(
            IF res.ok THEN [Logged(@, ev) EXCEPT !.pc = "prompt", !.nearbyAttractions = res.val]
            ELSE Logged(Failed(r, res.msg), ev),
              "findAttractionsNearCoordinate", resp)]
  /\ UNCHANGED <<API_KEY, OPENWEATHERMAP_API_KEY, svc, uiVars>>

\* Variant of the engine call that does not wait for the attraction lookup.
PromptCallWithoutAttractions(r) ==
  /\ run[r].pc = "attractions"
  /\ run' = [run EXCEPT ![r] =
       [Logged(@, <<CallEv("generateTripPlanPrompt")>>) EXCEPT
          !.pc = "await_prompt",
          !.nearbyAttractions = <<(<<>>)>>,
          !.promptInput = <<buildPromptInput(run[r].input[1], run[r].route[1],
                                             run[r].weatherForecast[1], <<>>)>>]]
  /\ UNCHANGED <<API_KEY, OPENWEATHERMAP_API_KEY, svc, uiVars>>

PromptCall(r) ==
  /\ run[r].pc = "prompt"
  /\ run' = [run EXCEPT ![r] =
       [Logged(@, <<CallEv("generateTripPlanPrompt")>>) EXCEPT
          !.pc = "await_prompt",
          !.promptInput = <<buildPromptInput(run[r].input[1], run[r].route[1],
                                             run[r].weatherForecast[1], run[r].nearbyAttractions[1])>>]]
  /\ UNCHANGED <<API_KEY, OPENWEATHERMAP_API_KEY, svc, uiVars>>

PromptReturn(r) ==
  /\ run[r].pc = "await_prompt"
  /\ \E resp \in EngineResponses :
       LET ev == <<ReturnEv("generateTripPlanPrompt", resp.kind = "ok", resp.kind)>>
       IN run' = [run EXCEPT ![r] = Received(
            IF resp.kind = "throw" THEN Logged(Failed(r, resp.err), ev)
            ELSE IF outputInvalid(resp.output)
              THEN [Logged(Failed(r, AI_FAILED_MSG), ev) EXCEPT !.output = resp.output]
            ELSE [Logged(@, ev) EXCEPT
                    !.pc = "assembled",
                    !.output = resp.output,
                    !.result = <<assemble(run[r].input[1], resp.output[1], run[r].route[1],
                                          run[r].weatherForecast[1], run[r].nearbyAttractions[1])>>],
              "generateTripPlanPrompt", resp)]
  /\ UNCHANGED <<API_KEY, OPENWEATHERMAP_API_KEY, svc, uiVars>>

generateTripPlanFlow(r) ==
  \/ Invoke(r)
  \/ GeocodeOriginCall(r) \/ GeocodeOriginReturn(r)
  \/ GeocodeDestinationCall(r) \/ GeocodeDestinationReturn(r)
  \/ RouteCall(r) \/ RouteReturn(r)
  \/ WeatherCall(r) \/ WeatherReturn(r)
  \/ AttractionsCall(r) \/ AttractionsReturn(r)
  \/ PromptCall(r) \/ PromptReturn(r)

Next == generateTripPlanFlow(1)

Spec == Init /\ [][Next]_vars

\* The steps of an invocation after it was made: the flow runs on to its next
\* await, and an awaited upstream call returns.
Proceed(r) ==
  \/ GeocodeOriginCall(r) \/ GeocodeOriginReturn(r)
  \/ GeocodeDestinationCall(r) \/ GeocodeDestinationReturn(r)
  \/ RouteCall(r) \/ RouteReturn(r)
  \/ WeatherCall(r) \/ WeatherReturn(r)
  \/ AttractionsCall(r) \/ AttractionsReturn(r)
  \/ PromptCall(r) \/ PromptReturn(r)

\* The flow where the runtime keeps running the invocation and every awaited
\* upstream call settles.
FairSpec == Spec /\ WF_vars(Proceed(1))

(***************************************************************************)
(* Two invocations of the flow at once, their awaits interleaved in any    *)
(* order, against upstreams that answer from a small set of responses.     *)
(***************************************************************************)
MockInputs == {i \in Inputs : i.waypoints \in {<<>>, <<(<<placeIdOf(1)>>)>>}}

MockGeoResponses ==
  {resp \in GeoResponses : resp.kind = "json" /\ resp.status \in {"OK", "ZERO_RESULTS"} /\ resp.err = <<>>}

MockDirResponses ==
  {resp \in OrchDirResponses :
     \/ resp.kind = "throw"
     \/ resp.status = "OK" /\ resp.routes = <<RouteViaStops>>}

MockPlacesResponses ==
  {resp \in OrchPlacesResponses :
     \/ resp.kind = "json" /\ resp.status = "REQUEST_DENIED" /\ resp.err = <<>>
     \/ resp.kind = "json" /\ resp.status = "OK" /\ resp.results = PlaceList(2, 1, "noid")}

MockEngineResponses ==
  {resp \in EngineResponses :
     \/ resp.kind = "throw"
     \/ resp.kind = "ok" /\ resp.output # <<>>
          /\ resp.output[1].suggestedDepartureTime # <<>> /\ resp.output[1].reasoning \notin {<<>>, <<"">>}}

mockFor(fn) ==
  IF fn \in {"getCoordinatesFromAddress:origin", "getCoordinatesFromAddress:destination"} THEN MockGeoResponses
  ELSE IF fn = "findShortestRoute" THEN MockDirResponses
  ELSE IF fn = "findAttractionsNearCoordinate" THEN MockPlacesResponses
  ELSE MockEngineResponses

\* The invocation was given a mock input and has heard mock responses only.
Mocked(f) ==
  /\ f.input # <<>> => f.input[1] \in MockInputs
  /\ \A i \in 1..Len(f.responses) : f.responses[i].resp \in mockFor(f.responses[i].fn)

PairNext == \E r \in RunIds : generateTripPlanFlow(r) /\ Mocked(run'[r])

PairSpec == Init /\ [][PairNext]_vars

(***************************************************************************)
(* TripPlanner.onSubmit: the message shown for a rejected generateTripPlan.*)
(***************************************************************************)
\* The keywords onSubmit looks for that occur in a fragment (lower-cased).
keywordsIn(fragment) ==
  IF fragment \in {"AI failed to generate a valid suggestion or reasoning.", "Failed to find attractions:",
                   "Schema validation failed.", "Trip plan generation failed:"} THEN {"failed"}
  ELSE IF fragment \in {"Check if the Directions API is enabled and authorized for your GOOGLE_MAPS_API_KEY.",
                        "Directions API Error:", "Directions API response missing required fields."} THEN {"directions"}
  ELSE IF fragment \in {"Check if the Places API is enabled and authorized for your GOOGLE_MAPS_API_KEY.",
                        "Places API Error:"} THEN {"places"}
  ELSE IF fragment = "Check your Google Cloud Console quotas." THEN {"quota"}
  ELSE IF fragment \in {"Could not geocode address", "Could not reverse geocode coordinates"} THEN {"geocode"}
  ELSE IF fragment = "Failed to fetch directions:" THEN {"directions", "fetch", "failed"}
  ELSE IF fragment \in {"Failed to geocode address:", "Failed to reverse geocode coordinates:"} THEN {"geocode", "failed"}
  ELSE IF fragment \in {"OVER_QUERY_LIMIT", "Usage limit exceeded."} THEN {"limit"}
  ELSE IF fragment = "Places API request failed." THEN {"places", "failed"}
  ELSE IF fragment = "REQUEST_DENIED" THEN {"request_denied"}
  ELSE IF fragment \in {"ZERO_RESULTS", "ZERO_RESULTS.", "ZERO_RESULTS (unexpected)."} THEN {"zero_results"}
  ELSE IF fragment = "fetch failed" THEN {"fetch", "failed"}
  ELSE {}

\* lowerCaseMessage.includes(keyword)
mentions(msg, keyword) == \E i \in 1..Len(msg) : keyword \in keywordsIn(msg[i])

\* Variant of the mapping that shows a flow failure as it arrives, without
\* looking for the configuration message inside it.
errorMessageForAsReceived(originalMessage, selectedWaypoints) ==
  IF originalMessage = SERVER_CONFIG_ERROR_MSG THEN SERVER_CONFIG_ERROR_MSG
  ELSE IF startsWith(originalMessage, "Trip plan generation failed:") THEN originalMessage
  ELSE <<"Error generating trip plan:">> \o originalMessage

errorMessageFor(originalMessage, selectedWaypoints) ==
  IF originalMessage = SERVER_CONFIG_ERROR_MSG THEN SERVER_CONFIG_ERROR_MSG
  ELSE IF mentions(originalMessage, "api key not valid") \/ mentions(originalMessage, "unauthorized")
          \/ mentions(originalMessage, "forbidden")
    THEN <<"Error: Invalid Google Maps API key.">>
  ELSE IF mentions(originalMessage, "request_denied") THEN
    IF mentions(originalMessage, "api project is not authorized") \/ mentions(originalMessage, "api is not enabled")
      THEN <<"Error: Google Maps API request denied. Ensure the required APIs are ENABLED.">> \o originalMessage
      ELSE <<"Error: Google Maps API request denied.">> \o originalMessage
  ELSE IF mentions(originalMessage, "quota") \/ mentions(originalMessage, "limit")
    THEN <<"Error: Could not generate trip plan due to exceeding Google Maps API usage limits.">>
  ELSE IF mentions(originalMessage, "geocode") /\ mentions(originalMessage, "zero_results")
    THEN <<"Error: Could not find coordinates for the specified address.">> \o originalMessage
  ELSE IF mentions(originalMessage, "directions") /\ mentions(originalMessage, "zero_results")
    THEN <<"Error: No route found between the specified locations",
           IF Len(selectedWaypoints) > 0 THEN " including the selected stops" ELSE "">> \o originalMessage
  ELSE IF mentions(originalMessage, "places") /\ mentions(originalMessage, "zero_results")
    THEN <<"Error: No attractions found for the specified area.">> \o originalMessage
  ELSE IF mentions(originalMessage, "fetch") /\ mentions(originalMessage, "failed")
    THEN <<"Error: Network request failed. Could not connect to Google Maps services.">> \o originalMessage
  ELSE IF startsWith(originalMessage, "Trip plan generation failed:") THEN
    IF includes(originalMessage, SERVER_CONFIG_ERROR_MSG) THEN SERVER_CONFIG_ERROR_MSG
    ELSE originalMessage
  ELSE <<"Error generating trip plan:">> \o originalMessage

(***************************************************************************)
(* Direct calls of the service functions (by the components, or by any     *)
(* other caller of the exported functions).  The functions keep no state  *)
(* between calls, so a behaviour follows one call from the initial state.  *)
(***************************************************************************)
ServiceWaypointStrings == {<<"place_id:", placeIdOf(1)>>, <<"place_id:", placeIdOf(2)>>, <<"Golden Gate Bridge">>}

ServiceWaypoints == UNION {[1..n -> ServiceWaypointStrings] : n \in 0..MaxStops}

LegLists ==
  {<<>>,
   <<(<<>>)>>,
   <<(<<Leg(<<615000>>, <<21000>>)>>)>>,
   <<(<<Leg(<<1499>>, <<89>>), Leg(<<2500>>, <<>>), Leg(<<>>, <<60>>)>>)>>}

RawRoutes ==
  {[legs |-> l, polyline |-> p, bounds |-> b, waypoint_order |-> w] :
     l \in LegLists,
     p \in {<<>>, <<(<<>>)>>, RouteViaStops.polyline},
     b \in {<<>>, <<BoxCity>>, <<BoxSFLA>>},
     w \in {<<>>, <<(<<>>)>>, <<(<<0>>)>>, <<(<<1, 0>>)>>, <<(<<0, 0>>)>>, <<(<<2, 5>>)>>}}

DirResponses == DirResponsesOver(RawRoutes)

ServicePaths == {<<>>, <<CoordSF>>, <<CoordSF, CoordLA>>, <<CoordSF, CoordLA, CoordSF>>}

ServiceRoutes ==
  {[path |-> p, distanceMeters |-> 615000, durationSeconds |-> 21000, bounds |-> b, waypointsOrder |-> <<>>] :
     p \in ServicePaths, b \in {<<>>} \cup {<<x>> : x \in Boxes}}

\* A finished call: its arguments, what the provider answered (resp, none for
\* a function that asks no provider), its result and the requests it sent.
Outcome(op, arg, resp, out) == [op |-> op, arg |-> arg, resp |-> resp, res |-> out.res, net |-> out.net]

CallGetCoordinatesFromAddress ==
  /\ svc.op = "none"
  /\ \E address \in {"San Francisco, CA", "Los Angeles, CA"}, resp \in GeoResponses :
       svc' = Outcome("getCoordinatesFromAddress", <<address>>, <<resp>>,
                       getCoordinatesFromAddress(API_KEY, address, resp))
  /\ UNCHANGED <<API_KEY, OPENWEATHERMAP_API_KEY, run, uiVars>>

CallGetAddressFromCoordinates ==
  /\ svc.op = "none"
  /\ \E coordinate \in {CoordSF, CoordLA}, resp \in RevResponses :
       svc' = Outcome("getAddressFromCoordinates", <<coordinate>>, <<resp>>,
                       getAddressFromCoordinates(API_KEY, coordinate, resp))
  /\ UNCHANGED <<API_KEY, OPENWEATHERMAP_API_KEY, run, uiVars>>

CallFindShortestRoute ==
  /\ svc.op = "none"
  /\ \E waypoints \in ServiceWaypoints, resp \in DirResponses :
       svc' = Outcome("findShortestRoute", <<waypoints>>, <<resp>>,
                       findShortestRoute(API_KEY, CoordSF, CoordLA, waypoints, resp))
  /\ UNCHANGED <<API_KEY, OPENWEATHERMAP_API_KEY, run, uiVars>>

CallFindAttractionsNearCoordinate ==
  /\ svc.op = "none"
  /\ \E center \in {CoordSF, CoordLA}, radius \in {15000, 20000}, resp \in PlacesResponses :
       svc' = Outcome("findAttractionsNearCoordinate", <<center, radius>>, <<resp>>,
                       findAttractionsNearCoordinate(API_KEY, center, radius, resp))
  /\ UNCHANGED <<API_KEY, OPENWEATHERMAP_API_KEY, run, uiVars>>

CallFindAttractionsNearRoute ==
  /\ svc.op = "none"
  /\ \E route \in ServiceRoutes, resp \in PlacesResponses :
       svc' = Outcome("findAttractionsNearRoute", <<route>>, <<resp>>,
                       findAttractionsNearRoute(API_KEY, route, resp))
  /\ UNCHANGED <<API_KEY, OPENWEATHERMAP_API_KEY, run, uiVars>>

CallGetWeatherForecast ==
  /\ svc.op = "none"
  /\ \E location \in {CoordSF, CoordLA} :
       svc' = Outcome("getWeatherForecast", <<location>>, <<>>,
                       [res |-> Ok(getWeatherForecast(location)), net |-> <<>>])
  /\ UNCHANGED <<API_KEY, OPENWEATHERMAP_API_KEY, run, uiVars>>

ServiceNext ==
  \/ CallGetCoordinatesFromAddress
  \/ CallGetAddressFromCoordinates
  \/ CallFindShortestRoute
  \/ CallFindAttractionsNearCoordinate
  \/ CallFindAttractionsNearRoute
  \/ CallGetWeatherForecast

ServiceSpec == Init /\ [][ServiceNext]_vars

(***************************************************************************)
(* The page: Home with TripPlanner, NavigationControls, MapComponent and   *)
(* WeatherDisplay.  One action per user event, callback and settled call.  *)
(* A user event is taken while MaxFetches leaves room for the calls of     *)
(* fetchWeather that it and the awaited generateTripPlan calls can cause.  *)
(***************************************************************************)
\* catch and finally of onSubmit
submitFailed(p, m, selectedWaypoints) ==
  [p EXCEPT !.error = <<errorMessageFor(m, selectedWaypoints)>>, !.loadingPlan = FALSE]

\* The state updates of Home made by one handler.  Home renders again when
\* its state changed or it holds a newly made plan object.  In a render
\* MapComponent is remounted when its key changed (the cleanup of the old
\* one runs, the new one has no map instance yet), else its effect re-runs
\* when isNavigating changed; WeatherDisplay is handed a new
\* initialLocation object, which makes a new fetchWeather, so its effect
\* calls it.
HomeUpdated(after, newObject) ==
  IF newObject \/ after # home
    THEN LET mg == IF mapKey(after) # mapKey(home)
                     THEN [m |-> MountedMap(after.isNavigating),
                           geo |-> watchCleanup(mapComponent, geolocation).geo]
                   ELSE IF after.isNavigating # mapComponent.isNavigating
                     THEN watchEffect(mapComponent, geolocation, after.isNavigating, mapComponent.map)
                   ELSE [m |-> mapComponent, geo |-> geolocation]
         IN /\ home' = after
            /\ mapComponent' = mg.m
            /\ geolocation' = mg.geo
            /\ weatherDisplay' = fetchWeather(weatherDisplay)
    ELSE UNCHANGED <<home, mapComponent, geolocation, weatherDisplay>>

\* The Start Journey button, rendered with a plan while not navigating.
StartJourney ==
  /\ home.tripPlan # <<>> /\ ~home.isNavigating
  /\ weatherDisplay.fetchesStarted + Len(planner.calls) + 1 <= MaxFetches
  /\ geolocation.nextId < MaxWatches
  /\ HomeUpdated(handleStartNavigation(home), FALSE)
  /\ UNCHANGED <<planner, API_KEY, OPENWEATHERMAP_API_KEY, run, svc>>

\* The Exit Journey button, rendered while navigating.
ExitJourney ==
  /\ home.isNavigating
  /\ weatherDisplay.fetchesStarted + Len(planner.calls) + 1 <= MaxFetches
  /\ HomeUpdated(handleStopNavigation(home), FALSE)
  /\ UNCHANGED <<planner, API_KEY, OPENWEATHERMAP_API_KEY, run, svc>>

\* The submit button with form values that pass TripPlannerSchema
\* (departureTime is the text of the datetime-local field): onSubmit up to
\* the await of generateTripPlan, or to its end when the text is no date.
SubmitPlan ==
  /\ submitEnabled(planner)
  /\ weatherDisplay.fetchesStarted + Len(planner.calls) + 2 <= MaxFetches
  /\ \E departureTime \in {"2024-08-03T10:00", "tomorrow"} :
       LET started == submitStarted(planner)
           departure == departureISO(departureTime)
       IN IF departure = <<>>
            THEN /\ planner' = submitFailed(started.p, <<"Invalid date/time format for departure">>,
                                            planner.selectedWaypoints)
                 /\ HomeUpdated(handlePlanGenerated(handlePlanGenerated(home, started.plan), <<>>), FALSE)
            ELSE /\ planner' = [started.p EXCEPT !.calls = Append(@,
                        [input |-> [originAddress |-> "San Francisco, CA",
                                    destinationAddress |-> "Los Angeles, CA",
                                    departureTime |-> departure[1],
                                    waypoints |-> <<planner.selectedWaypoints>>],
                         selectedWaypoints |-> planner.selectedWaypoints])]
                 /\ HomeUpdated(handlePlanGenerated(home, started.plan), started.plan # <<>>)
  /\ UNCHANGED <<API_KEY, OPENWEATHERMAP_API_KEY, run, svc>>

\* generateTripPlan resolves with a plan: the try block after the await,
\* and finally.
PlanResolved ==
  /\ \E i \in 1..Len(planner.calls) : \E plan \in PlansFor(planner.calls[i].input) :
       /\ planner' = [planner EXCEPT !.calls = settled(@, i), !.tripPlan = <<plan>>,
                                     !.loadingPlan = FALSE]
       /\ HomeUpdated(handlePlanGenerated(home, <<plan>>), TRUE)
  /\ UNCHANGED <<API_KEY, OPENWEATHERMAP_API_KEY, run, svc>>

\* generateTripPlan rejects with a failure of the flow.
PlanRejected ==
  /\ \E i \in 1..Len(planner.calls) :
       \E m \in {flowCatch(SERVER_CONFIG_ERROR_MSG), flowCatch(AI_FAILED_MSG)} :
         /\ planner' = submitFailed([planner EXCEPT !.calls = settled(@, i)], m,
                                     planner.calls[i].selectedWaypoints)
         /\ HomeUpdated(handlePlanGenerated(home, <<>>), FALSE)
  /\ UNCHANGED <<API_KEY, OPENWEATHERMAP_API_KEY, run, svc>>

\* A checkbox of the displayed plan, enabled for an attraction with a
\* placeId while no plan is loading; it is checked when the id is selected.
ToggleWaypoint ==
  /\ planner.tripPlan # <<>>
  /\ ~planner.loadingPlan
  /\ \E i \in 1..Len(planner.tripPlan[1].nearbyAttractions) :
       LET attraction == planner.tripPlan[1].nearbyAttractions[i]
           checked == \E k \in 1..Len(planner.selectedWaypoints) :
                        planner.selectedWaypoints[k] = attraction.placeId[1]
       IN /\ attraction.placeId # <<>>
          /\ planner' = [planner EXCEPT !.selectedWaypoints =
               handleWaypointChange(@, ~checked, attraction.placeId[1])]
  /\ UNCHANGED <<home, mapComponent, geolocation, weatherDisplay, API_KEY, OPENWEATHERMAP_API_KEY, run, svc>>

\* useMap() returns the map instance: the geolocation effect runs again.
MapLoaded ==
  /\ ~mapComponent.map
  /\ geolocation.nextId < MaxWatches
  /\ LET mg == watchEffect(mapComponent, geolocation, mapComponent.isNavigating, TRUE)
     IN mapComponent' = mg.m /\ geolocation' = mg.geo
  /\ UNCHANGED <<home, planner, weatherDisplay, API_KEY, OPENWEATHERMAP_API_KEY, run, svc>>

\* The browser reports a position to the active watch: its success callback.
PositionReceived ==
  /\ geolocation.watches # {}
  /\ \E location \in {CoordSF, CoordLA} :
       mapComponent' = [mapComponent EXCEPT !.currentLocation = <<location>>]
  /\ UNCHANGED <<home, planner, geolocation, weatherDisplay, API_KEY, OPENWEATHERMAP_API_KEY, run, svc>>

\* The browser reports an error to the active watch.
PositionFailed ==
  /\ geolocation.watches # {}
  /\ \E code \in {"PERMISSION_DENIED", "POSITION_UNAVAILABLE", "TIMEOUT", "OTHER"} :
       LET mg == onPositionError(mapComponent, geolocation, code)
       IN mapComponent' = mg.m /\ geolocation' = mg.geo
  /\ UNCHANGED <<home, planner, weatherDisplay, API_KEY, OPENWEATHERMAP_API_KEY, run, svc>>

\* The refresh button, enabled while loading is false.
RefreshWeather ==
  /\ ~weatherDisplay.loading
  /\ weatherDisplay.fetchesStarted + Len(planner.calls) + 1 <= MaxFetches
  /\ weatherDisplay' = handleRefresh(weatherDisplay)
  /\ UNCHANGED <<home, planner, mapComponent, geolocation, API_KEY, OPENWEATHERMAP_API_KEY, run, svc>>

\* getWeatherForecast resolves for a fetch under way: fetchWeather from its
\* await on.
WeatherSettled ==
  /\ weatherDisplay.inflight > 0
  /\ weatherDisplay' = [weatherDisplay EXCEPT !.weatherData = <<getWeatherForecast(CoordSF)>>,
                                              !.loading = FALSE, !.inflight = @ - 1]
  /\ UNCHANGED <<home, planner, mapComponent, geolocation, API_KEY, OPENWEATHERMAP_API_KEY, run, svc>>

\* The page as loaded in a browser; the first watch id a browser issues is
\* 0 or 1.
UIInit ==
  /\ API_KEY = "AIza-key"
  /\ OPENWEATHERMAP_API_KEY = ""
  /\ run = [r \in RunIds |-> IdleRun]
  /\ svc = NoCall
  /\ \E supported \in BOOLEAN, first \in {0, 1} : Mounted(supported, first)

UINext ==
  \/ StartJourney
  \/ ExitJourney
  \/ SubmitPlan
  \/ PlanResolved
  \/ PlanRejected
  \/ ToggleWaypoint
  \/ MapLoaded
  \/ PositionReceived
  \/ PositionFailed
  \/ RefreshWeather
  \/ WeatherSettled

UISpec == UIInit /\ [][UINext]_vars

\* An awaited generateTripPlan call settles.
FairUISpec == UISpec /\ WF_vars(PlanResolved \/ PlanRejected)

(***************************************************************************)
(* Properties.                                                             *)
(***************************************************************************)
GeocodeCalls == {"getCoordinatesFromAddress:origin", "getCoordinatesFromAddress:destination"}

\* The failure taxonomy, read off a message.
stripFlowPrefix(msg) == IF startsWith(msg, "Trip plan generation failed:") THEN Tail(msg) ELSE msg

hasFragment(msg, fragments) == \E i \in 1..Len(msg) : msg[i] \in fragments

failureClass(msg) ==
  LET m == stripFlowPrefix(msg)
  IN IF m = SERVER_CONFIG_ERROR_MSG THEN "Unconfigured"
     ELSE IF m = AI_FAILED_MSG THEN "InvalidRecommendation"
     ELSE IF m = <<"Directions API response missing required fields.">> THEN "Invalid"
     ELSE IF startsWith(m, "Failed to fetch directions:") THEN "Transport"
     ELSE IF startsWith(m, "Could not find route.") /\ hasFragment(m, {"ZERO_RESULTS", "ZERO_RESULTS."})
       THEN "NoRoute"
     ELSE IF m = <<>> \/ ~(m[1] \in {"Geocoding API Error:", "Reverse Geocoding API Error:",
                                     "Directions API Error:", "Places API Error:"}) THEN "Other"
     ELSE IF hasFragment(m, {"No results found for address", "No address found for coordinates"}) THEN "NotFound"
     ELSE IF hasFragment(m, {"No route found including the specified waypoints."}) THEN "NoRoute"
     ELSE IF hasFragment(m, {"Request Denied for address", "Request Denied for coordinates", "Request Denied."})
       THEN "AccessDenied"
     ELSE IF hasFragment(m, {"Usage limit exceeded."}) THEN "RateLimited"
     ELSE IF hasFragment(m, {"Too many waypoints provided."}) THEN "TooManyStops"
     ELSE IF hasFragment(m, {"Invalid Request."}) THEN "Invalid"
     ELSE "Other"

called(f, fn) == \E i \in 1..Len(f.calls) : f.calls[i].ev = "call" /\ f.calls[i].fn = fn
returnedOk(f, fn) == \E i \in 1..Len(f.calls) : f.calls[i].ev = "return" /\ f.calls[i].fn = fn /\ f.calls[i].ok
returnedFailure(f, fn) == \E i \in 1..Len(f.calls) : f.calls[i].ev = "return" /\ f.calls[i].fn = fn /\ ~f.calls[i].ok
returnedStatus(f, fn, status) ==
  \E i \in 1..Len(f.calls) : f.calls[i].ev = "return" /\ f.calls[i].fn = fn /\ f.calls[i].status = status

\* A recommendation lacking a field: no output, or a missing or empty
\* suggestedDepartureTime or reasoning.
emptyField(x) == x = <<>> \/ x = <<"">>
incomplete(output) ==
  output = <<>> \/ emptyField(output[1].suggestedDepartureTime) \/ emptyField(output[1].reasoning)

\* C1: a failure of a geocode, of route finding, of the weather lookup or of
\* the reasoning engine ends the invocation in failure with no TripPlanResult,
\* and a TripPlanResult exists only when every one of those stages succeeded.
C1_NoResultOnFailure ==
  LET f == run[1]
      fatal == GeocodeCalls \cup {"findShortestRoute", "getWeatherForecast", "generateTripPlanPrompt"}
  IN /\ (\E fn \in fatal : returnedFailure(f, fn)) => (f.pc = "failed" /\ f.result = <<>> /\ f.error # <<>>)
     /\ f.pc = "failed" => f.result = <<>>
     /\ f.result # <<>> =>
          /\ f.pc = "assembled" /\ f.error = <<>>
          /\ \A fn \in fatal : returnedOk(f, fn)
          /\ ~incomplete(f.output)

C1_Witness ==
  /\ run[1].pc = "failed"
  /\ returnedFailure(run[1], "generateTripPlanPrompt")
  /\ run[1].nearbyAttractions # <<>> /\ run[1].weatherForecast # <<>>
  /\ run[1].result = <<>>

\* C2: when a geocode fails the invocation is failed with the geocoder's own
\* classification (NotFound for zero results), and route finding, the weather
\* lookup, the attraction search and the reasoning engine were never called.
C2_GeocodeFailureIsFatal ==
  LET f == run[1]
  IN (\E fn \in GeocodeCalls : returnedFailure(f, fn)) =>
       /\ f.pc = "failed"
       /\ failureClass(f.error) = failureClass(f.thrown)
       /\ (\E fn \in GeocodeCalls : returnedStatus(f, fn, "ZERO_RESULTS")) => failureClass(f.error) = "NotFound"
       /\ \A fn \in {"findShortestRoute", "getWeatherForecast", "findAttractionsNearRoute",
                     "findAttractionsNearCoordinate", "generateTripPlanPrompt"} : ~called(f, fn)

C2_Witness ==
  /\ run[1].pc = "failed"
  /\ returnedOk(run[1], "getCoordinatesFromAddress:origin")
  /\ returnedStatus(run[1], "getCoordinatesFromAddress:destination", "ZERO_RESULTS")
  /\ failureClass(run[1].error) = "NotFound"

\* C3: when the nearby search fails with anything but the configuration
\* error, the invocation goes on with an empty attraction list: it is
\* assembled as soon as the engine gave a valid output, and the result's
\* nearbyAttractions is empty.
searchFailed(f) ==
  \E i \in 1..Len(f.calls) :
     /\ f.calls[i].ev = "return" /\ f.calls[i].fn = "findAttractionsNearCoordinate"
     /\ ~f.calls[i].ok /\ f.calls[i].status # "unconfigured"

C4_InvalidRecommendation ==
  LET f == run[1]
  IN (returnedOk(f, "generateTripPlanPrompt") /\ incomplete(f.output)) =>
       /\ f.pc = "failed"
       /\ f.result = <<>>
       /\ f.thrown = AI_FAILED_MSG
       /\ failureClass(f.error) = "InvalidRecommendation"

C4_Witness ==
  /\ run[1].pc = "failed"
  /\ returnedOk(run[1], "generateTripPlanPrompt")
  /\ run[1].output # <<>> /\ run[1].output[1].suggestedDepartureTime = <<"">>
  /\ failureClass(run[1].error) = "InvalidRecommendation"

\* C5: a provider operation called while its provider's credential is absent
\* fails with Unconfigured, and no network request was issued.
C5_UnconfiguredBeforeNetwork ==
  LET credentialAbsent ==
        IF svc.op = "getWeatherForecast" THEN OPENWEATHERMAP_API_KEY = "" ELSE API_KEY = ""
  IN (svc.op \in {"getCoordinatesFromAddress", "getAddressFromCoordinates", "findShortestRoute",
                  "findAttractionsNearCoordinate", "getWeatherForecast"} /\ credentialAbsent) =>
       /\ ~svc.res.ok
       /\ failureClass(svc.res.msg) = "Unconfigured"
       /\ svc.net = <<>>

\* The requested stops as TripPlanner holds them (selectedWaypoints).
selectedWaypointsOf(f) == IF f.input[1].waypoints = <<>> THEN <<>> ELSE f.input[1].waypoints[1]

\* C6: a configuration failure raised by a stage reaches the caller still
\* identifiable as the configuration error, and TripPlanner shows exactly
\* SERVER_CONFIG_ERROR_MSG for it.
C6_UnconfiguredNotDowngraded ==
  LET f == run[1]
  IN (\E i \in 1..Len(f.calls) : f.calls[i].ev = "return" /\ f.calls[i].status = "unconfigured") =>
       /\ f.pc = "failed"
       /\ failureClass(f.error) = "Unconfigured"
       /\ errorMessageFor(f.error, selectedWaypointsOf(f)) = SERVER_CONFIG_ERROR_MSG

C6_Witness ==
  /\ run[1].pc = "failed"
  /\ returnedStatus(run[1], "getCoordinatesFromAddress:origin", "unconfigured")
  /\ run[1].error # SERVER_CONFIG_ERROR_MSG
  /\ errorMessageFor(run[1].error, selectedWaypointsOf(run[1])) = SERVER_CONFIG_ERROR_MSG

okBefore(f, i, fn) ==
  \E j \in 1..(i - 1) : f.calls[j].ev = "return" /\ f.calls[j].fn = fn /\ f.calls[j].ok

C8_StagesInOrder ==
  LET f == run[1]
  IN /\ \A i \in 1..Len(f.calls) :
          f.calls[i].ev = "call" =>
            /\ f.calls[i].fn = "findShortestRoute" => \A g \in GeocodeCalls : okBefore(f, i, g)
            /\ f.calls[i].fn \in {"getWeatherForecast", "findAttractionsNearRoute"} =>
                 okBefore(f, i, "findShortestRoute")
            /\ f.calls[i].fn = "generateTripPlanPrompt" =>
                 (okBefore(f, i, "getWeatherForecast") /\ okBefore(f, i, "findAttractionsNearRoute"))
     /\ f.result # <<>> => (returnedOk(f, "generateTripPlanPrompt") /\ ~incomplete(f.output))

C8_Witness ==
  /\ run[1].pc = "assembled"
  /\ \A fn \in GeocodeCalls \cup {"findShortestRoute", "getWeatherForecast", "findAttractionsNearRoute",
                                  "generateTripPlanPrompt"} : called(run[1], fn)

\* An attraction whose placeId is one of the requested stop identifiers.
isRequestedStop(input, att) ==
  /\ input.waypoints # <<>>
  /\ att.placeId # <<>>
  /\ \E i \in 1..Len(input.waypoints[1]) : input.waypoints[1][i] = att.placeId[1]

\* C9: the result's nearbyAttractions is the sequence findAttractionsNearRoute
\* returned, stops and attractions beyond the fifth included.
C9_FullAttractionList ==
  run[1].pc = "assembled" => run[1].result[1].nearbyAttractions = run[1].nearbyAttractions[1]

C9_Witness ==
  LET f == run[1]
  IN /\ f.pc = "assembled"
     /\ Len(f.result[1].nearbyAttractions) > 5
     /\ \E i \in 1..Len(f.result[1].nearbyAttractions) :
          isRequestedStop(f.input[1], f.result[1].nearbyAttractions[i])
     /\ Len(f.promptInput[1].attractions) = 5

\* C10: the attractions handed to the engine are the first min(5, n) of the
\* n attractions whose placeId is not a requested stop, in provider order.
C10_PromptCandidates ==
  LET f == run[1]
  IN f.promptInput # <<>> =>
       LET nonStop(att) == ~isRequestedStop(f.input[1], att)
           nonStops == SelectSeq(f.nearbyAttractions[1], nonStop)
           candidates == f.promptInput[1].attractions
       IN /\ Len(candidates) <= 5
          /\ Len(candidates) = Min(5, Len(nonStops))
          /\ \A i \in 1..Len(candidates) : candidates[i].name = nonStops[i].name

\* The total of the per-leg figures, from the last leg back; a leg that
\* carries no figure adds nothing.
RECURSIVE legTotal(_, _)
legTotal(figures, n) ==
  IF n = 0 THEN 0
  ELSE legTotal(figures, n - 1) + (IF figures[n] = <<>> THEN 0 ELSE figures[n][1])

legDistances(legs) == [i \in 1..Len(legs) |-> legs[i].distance]
legDurations(legs) == [i \in 1..Len(legs) |-> legs[i].duration]

succeeded(op) == svc.op = op /\ svc.res.ok

\* C11: a Route returned by findShortestRoute has distanceMeters equal to the
\* sum of the distance values of all legs of the first route of the response,
\* and durationSeconds equal to the sum of their duration values.
C11_TotalsAreLegSums ==
  succeeded("findShortestRoute") =>
    LET legs == svc.resp[1].routes[1].legs[1]
    IN /\ svc.res.val[1].distanceMeters = legTotal(legDistances(legs), Len(legs))
       /\ svc.res.val[1].durationSeconds = legTotal(legDurations(legs), Len(legs))

C11_Witness ==
  /\ succeeded("findShortestRoute")
  /\ Len(svc.resp[1].routes[1].legs[1]) = 3
  /\ svc.res.val[1].distanceMeters = 3999
  /\ svc.res.val[1].durationSeconds = 149

\* The stops of a findShortestRoute call, and those it sends to the provider.
stopsPassed == svc.arg[1]
stopsSent == IF svc.net = <<>> \/ svc.net[1].waypoints = <<>> THEN <<>> ELSE svc.net[1].waypoints[1].stops

isPermutationOfIndices(order, n) ==
  /\ Len(order) = n
  /\ \A k \in 0..(n - 1) : \E i \in 1..Len(order) : order[i] = k

\* C12: a Route returned for a call with n >= 1 stops has no waypointsOrder
\* or one that is a permutation of 0..n-1.
C12_OrderIsPermutation ==
  (succeeded("findShortestRoute") /\ Len(stopsPassed) >= 1 /\ svc.res.val[1].waypointsOrder # <<>>) =>
    isPermutationOfIndices(svc.res.val[1].waypointsOrder[1], Len(stopsPassed))

\* C13: a Route returned for a call that sent no stop to the provider has no
\* waypointsOrder.
C13_NoOrderWithoutStops ==
  (succeeded("findShortestRoute") /\ stopsSent = <<>>) => svc.res.val[1].waypointsOrder = <<>>

\* The message TripPlanner shows for the failure of a run.
shownFor(f) == errorMessageFor(f.error, selectedWaypointsOf(f))

shownAsNetworkFailure(shown) ==
  startsWith(shown, "Error: Network request failed. Could not connect to Google Maps services.")

\* The directions provider answered OK with a first route that lacks legs,
\* geometry or bounds.
routeResponseIncomplete(f) ==
  \E i \in 1..Len(f.responses) :
    LET resp == f.responses[i].resp
    IN /\ f.responses[i].fn = "findShortestRoute"
       /\ resp.kind = "json" /\ resp.status = "OK" /\ Len(resp.routes) > 0
       /\ \/ resp.routes[1].legs = <<>>
          \/ resp.routes[1].polyline = <<>> \/ resp.routes[1].polyline = <<(<<>>)>>
          \/ resp.routes[1].bounds = <<>>

\* C14: when the provider answers OK with a route lacking legs, geometry or
\* bounds, no Route is returned, the failure findShortestRoute throws is of
\* class Invalid, it is still Invalid as the flow rejects with it, and the
\* user is not shown a network failure.
C14_IncompleteResponseIsInvalid ==
  LET f == run[1]
  IN routeResponseIncomplete(f) =>
       /\ f.pc = "failed" /\ f.route = <<>> /\ f.result = <<>>
       /\ failureClass(f.thrown) = "Invalid"
       /\ failureClass(f.error) = "Invalid"
       /\ ~shownAsNetworkFailure(shownFor(f))

\* A place rated 3.5 or more (ratings are in tenths) and operational.
ratedOperational(place) ==
  /\ place.rating # <<>> /\ place.rating[1] >= 35
  /\ place.business_status = "OPERATIONAL"

\* C15: every attraction findAttractionsNearCoordinate returns is a place of
\* the response that has a rating of at least 3.5 and status OPERATIONAL.
C15_OnlyRatedOperational ==
  succeeded("findAttractionsNearCoordinate") =>
    \A i \in 1..Len(svc.res.val[1]) :
      \E j \in 1..Len(svc.resp[1].results) :
        /\ svc.resp[1].results[j].name = svc.res.val[1][i].name
        /\ ratedOperational(svc.resp[1].results[j])

C15_Witness ==
  /\ succeeded("findAttractionsNearCoordinate")
  /\ Len(svc.res.val[1]) >= 1
  /\ \E j \in 1..Len(svc.resp[1].results) :
       /\ svc.resp[1].results[j].business_status # "OPERATIONAL"
       /\ svc.resp[1].results[j].rating = <<45>>

\* C16: findAttractionsNearCoordinate returns the first min(15, q) of the q
\* rated, operational places of the response, in the order of the response.
C16_FirstFifteenQualifying ==
  succeeded("findAttractionsNearCoordinate") =>
    LET q == SelectSeq(svc.resp[1].results, ratedOperational)
        returned == svc.res.val[1]
    IN /\ Len(returned) <= 15
       /\ Len(returned) = Min(15, Len(q))
       /\ \A i \in 1..Len(returned) : returned[i].name = q[i].name

C16_Witness ==
  /\ succeeded("findAttractionsNearCoordinate")
  /\ Len(svc.res.val[1]) = 15
  /\ Len(svc.resp[1].results) > 16
  /\ ~ratedOperational(svc.resp[1].results[1])
  /\ svc.res.val[1][15].name = svc.resp[1].results[16].name

finished(f) == f.pc \in {"assembled", "failed"}

\* C18: two invocations given the same request and the same upstream
\* responses end alike: both fail with the same error, or both return
\* results that are equal in every field.
C18_SameOutcome ==
  (finished(run[1]) /\ finished(run[2])
     /\ run[1].input = run[2].input /\ run[1].responses = run[2].responses) =>
    /\ run[1].pc = run[2].pc
    /\ run[1].error = run[2].error
    /\ run[1].result = run[2].result
    /\ run[1].result # <<>> =>
         \A field \in DOMAIN run[1].result[1] : run[1].result[1][field] = run[2].result[1][field]

C18_Witness ==
  /\ run[1].pc = "assembled" /\ run[2].pc = "assembled"
  /\ run[1].input = run[2].input /\ run[1].responses = run[2].responses
  /\ Len(run[1].result[1].nearbyAttractions) > 0

\* A step of one invocation leaves the other invocation and the credentials
\* as they were.
StepOfOneRun ==
  \A r \in RunIds :
    run'[r] # run[r] =>
      /\ \A q \in RunIds \ {r} : run'[q] = run[q]
      /\ API_KEY' = API_KEY /\ OPENWEATHERMAP_API_KEY' = OPENWEATHERMAP_API_KEY

\* Where an invocation stands is decided by its own request and the responses
\* to its own calls: two invocations with the same request, the same
\* responses so far and as many calls and returns are in the same state,
\* whatever the other did in between.
OwnInputsDecide ==
  (run[1].input = run[2].input /\ run[1].responses = run[2].responses
     /\ Len(run[1].calls) = Len(run[2].calls)) => run[1] = run[2]

\* C19: two invocations running concurrently, their upstream calls
\* interleaved in any order, do not affect each other: no step of one
\* changes the other, and each one's state and outcome follow from its own
\* request and the responses to its own calls.
C19_Independent == [][StepOfOneRun]_vars /\ []OwnInputsDecide

C19_Witness ==
  /\ run[1].pc = "assembled" /\ run[2].pc = "failed"
  /\ run[1].input # run[2].input
  /\ Len(run[2].responses) = 3 /\ Len(run[1].responses) = 5

\* C20: within one invocation each upstream function is called at most once
\* (each geocode, the route, the weather, the nearby search and the engine),
\* and no more than one request per call goes out.
C20_NoRetry ==
  LET f == run[1]
  IN /\ \A i, j \in 1..Len(f.calls) :
          (f.calls[i].ev = "call" /\ f.calls[j].ev = "call" /\ f.calls[i].fn = f.calls[j].fn) => i = j
     /\ Len(f.net) <= 4

C20_Witness ==
  /\ run[1].pc = "failed"
  /\ returnedFailure(run[1], "getCoordinatesFromAddress:origin")
  /\ Len(run[1].net) = 1

\* C21: an invocation whose upstream calls all return ends assembled or
\* failed; it ends in one of the two only (a result or an error, never both),
\* and once ended it stays as it is.
C21_EndsOnce ==
  /\ (run[1].pc # "idle") ~> finished(run[1])
  /\ [](finished(run[1]) => ((run[1].result # <<>>) # (run[1].error # <<>>)))
  /\ [][finished(run[1]) => run'[1] = run[1]]_vars

C21_Witness ==
  /\ finished(run[1])
  /\ run[1].result # <<>> /\ run[1].error = <<>>
  /\ Len(run[1].calls) = 14 /\ Len(run[1].responses) = 5

\* A direct call that reached the provider and was answered with this status.
answered(op, status) ==
  /\ svc.op = op /\ svc.net # <<>>
  /\ svc.resp[1].kind = "json" /\ svc.resp[1].status = status

\* C22: when the directions provider answers ZERO_RESULTS, findShortestRoute
\* fails with NoRoute, and the failure says 'including the specified
\* waypoints' exactly when the call was made with stops.
C22_NoRouteTellsStopsApart ==
  answered("findShortestRoute", "ZERO_RESULTS") =>
    /\ ~svc.res.ok
    /\ failureClass(svc.res.msg) = "NoRoute"
    /\ (Len(stopsPassed) > 0) <=>
         hasFragment(svc.res.msg, {"No route found including the specified waypoints."})

C22_Witness ==
  /\ answered("findShortestRoute", "ZERO_RESULTS")
  /\ Len(stopsPassed) = 2
  /\ svc.res.msg = <<"Directions API Error:", "No route found including the specified waypoints.",
                     "Status:", "ZERO_RESULTS">>

\* The failure class each provider status stands for.
classOfStatus(status) ==
  IF status = "ZERO_RESULTS" THEN "NotFound"
  ELSE IF status = "REQUEST_DENIED" THEN "AccessDenied"
  ELSE IF status = "OVER_QUERY_LIMIT" THEN "RateLimited"
  ELSE IF status = "MAX_WAYPOINTS_EXCEEDED" THEN "TooManyStops"
  ELSE IF status = "INVALID_REQUEST" THEN "Invalid"
  ELSE "Other"

Geocoders == {"getCoordinatesFromAddress", "getAddressFromCoordinates"}

\* C23: both geocoders fail with the class of the provider's status (zero
\* results NotFound, request denied AccessDenied, over quota RateLimited,
\* invalid request Invalid), and return a value only for an OK answer with
\* at least one result, the first one.
C23_GeocoderStatusClasses ==
  (svc.op \in Geocoders /\ svc.net # <<>> /\ svc.resp[1].kind = "json") =>
    LET resp == svc.resp[1]
    IN /\ resp.status \in {"ZERO_RESULTS", "REQUEST_DENIED", "OVER_QUERY_LIMIT", "INVALID_REQUEST"} =>
            (~svc.res.ok /\ failureClass(svc.res.msg) = classOfStatus(resp.status))
       /\ svc.res.ok => (resp.status = "OK" /\ Len(resp.results) >= 1 /\ svc.res.val[1] = resp.results[1])

\* C24: for every status but OK findShortestRoute fails; request denied,
\* over quota, too many waypoints and invalid request fail with their class,
\* and the message is the one chosen at the status check.
C24_RouteStatusClasses ==
  (svc.op = "findShortestRoute" /\ svc.net # <<>> /\ svc.resp[1].kind = "json"
     /\ svc.resp[1].status # "OK") =>
    /\ ~svc.res.ok
    /\ svc.resp[1].status \in {"REQUEST_DENIED", "OVER_QUERY_LIMIT", "MAX_WAYPOINTS_EXCEEDED", "INVALID_REQUEST"} =>
         failureClass(svc.res.msg) = classOfStatus(svc.resp[1].status)
    /\ startsWith(svc.res.msg, "Directions API Error:") \/ startsWith(svc.res.msg, "Could not find route.")

C24_Witness ==
  /\ answered("findShortestRoute", "MAX_WAYPOINTS_EXCEEDED")
  /\ ~svc.res.ok
  /\ failureClass(svc.res.msg) = "TooManyStops"

\* C25: the routing request of a run carries the n >= 1 requested stops, each
\* as place_id:<id>, in request order, with optimisation asked for; with no
\* requested stop (list absent or empty) it carries no waypoints parameter.
C25_RequestCarriesStops ==
  LET f == run[1]
  IN (called(f, "findShortestRoute") /\ Len(f.net) >= 3) =>
       LET ids == selectedWaypointsOf(f)
           sent == f.net[3].waypoints
       IN IF Len(ids) >= 1
            THEN /\ sent # <<>>
                 /\ sent[1].optimize = TRUE
                 /\ Len(sent[1].stops) = Len(ids)
                 /\ \A i \in 1..Len(ids) : sent[1].stops[i] = <<"place_id:", ids[i]>>
            ELSE sent = <<>>

C25_Witness ==
  LET f == run[1]
  IN /\ called(f, "findShortestRoute") /\ Len(f.net) >= 3
     /\ selectedWaypointsOf(f) = <<placeIdOf(2), placeIdOf(1)>>
     /\ f.net[3].waypoints[1].stops = <<(<<"place_id:", placeIdOf(2)>>), <<"place_id:", placeIdOf(1)>>>>

\* A findAttractionsNearRoute call for a route without bounds.
nearRouteWithoutBounds == svc.op = "findAttractionsNearRoute" /\ svc.arg[1].bounds = <<>>

engineOutput(f) == f.responses[Len(f.responses)].resp.output

\* C28: a result carries a non-empty suggestedDepartureTime and a non-empty
\* reasoning, the ones the engine returned to this run.
C28_ResultCarriesEngineOutput ==
  LET f == run[1]
  IN f.result # <<>> =>
       /\ f.responses[Len(f.responses)].fn = "generateTripPlanPrompt"
       /\ f.result[1].suggestedDepartureTime = engineOutput(f)[1].suggestedDepartureTime
       /\ f.result[1].reasoning = engineOutput(f)[1].reasoning
       /\ Len(f.result[1].suggestedDepartureTime) = 1 /\ f.result[1].suggestedDepartureTime[1] # ""
       /\ Len(f.result[1].reasoning) = 1 /\ f.result[1].reasoning[1] # ""

C28_Witness ==
  /\ run[1].result # <<>>
  /\ run[1].result[1].suggestedDepartureTime = <<"2024-08-03T09:30:00.000Z">>
  /\ run[1].result[1].reasoning = <<"Leave before the morning peak.">>

\* The nearby search of the run was answered with zero results.
searchFoundNothing(f) ==
  \E i \in 1..Len(f.responses) :
    /\ f.responses[i].fn = "findAttractionsNearCoordinate"
    /\ f.responses[i].resp.kind = "json" /\ f.responses[i].resp.status = "ZERO_RESULTS"

\* C29: a nearby search answered with zero results fails neither
\* findAttractionsNearCoordinate nor findAttractionsNearRoute: both return
\* the empty list and the run goes on to the engine.
C29_ZeroResultsIsEmpty ==
  LET f == run[1]
  IN searchFoundNothing(f) =>
       /\ returnedOk(f, "findAttractionsNearCoordinate")
       /\ returnedOk(f, "findAttractionsNearRoute")
       /\ f.nearbyAttractions = <<(<<>>)>>
       /\ f.pc \in {"prompt", "await_prompt", "assembled", "failed"}
       /\ f.pc = "failed" => called(f, "generateTripPlanPrompt")

C29_Witness ==
  /\ searchFoundNothing(run[1])
  /\ run[1].pc = "assembled"
  /\ run[1].result[1].nearbyAttractions = <<>>

\* C30: the hasWaypoints flag given to the engine is true exactly when the
\* request lists at least one stop; it is false for an absent and for an
\* empty list.
C30_StopsFlag ==
  LET f == run[1]
  IN f.promptInput # <<>> =>
       (f.promptInput[1].routeInfo.hasWaypoints <=>
          (f.input[1].waypoints # <<>> /\ Len(f.input[1].waypoints[1]) >= 1))

C30_Witness ==
  /\ run[1].promptInput # <<>>
  /\ run[1].input[1].waypoints = <<(<<>>)>>
  /\ ~run[1].promptInput[1].routeInfo.hasWaypoints

\* The response the run received from the upstream of fn.
responseTo(f, fn) ==
  LET i == CHOOSE k \in 1..Len(f.responses) : f.responses[k].fn = fn
  IN f.responses[i].resp

\* C31: a result repeats the request's two addresses and carries the route
\* findShortestRoute returned and the forecast getWeatherForecast returned
\* in this run, whole: the rounding done for the engine does not touch them.
C31_ResultCarriesServiceValues ==
  LET f == run[1]
  IN f.pc = "assembled" =>
       LET result == f.result[1]
           returnedRoute == directionsHandle(waypointsParam(f.input[1]),
                                             responseTo(f, "findShortestRoute")).val
       IN /\ result.originAddress = f.input[1].originAddress
          /\ result.destinationAddress = f.input[1].destinationAddress
          /\ <<result.route>> = returnedRoute
          /\ result.route = f.route[1]
          /\ result.weatherForecast = getWeatherForecast(f.originCoord[1])
          /\ result.weatherForecast = f.weatherForecast[1]

C31_Witness ==
  LET f == run[1]
  IN /\ f.pc = "assembled"
     /\ f.result[1].route.distanceMeters = 3999
     /\ f.promptInput[1].routeInfo.distanceKm = 4
     /\ Len(f.result[1].weatherForecast.fiveDayOutlook) = 5

\* C32: an attraction without a placeId is never removed as a requested
\* stop: when fewer than five attractions precede it in the list the search
\* returned, it is among the candidates handed to the engine, whatever the
\* requested stops.
C32_NoIdNeverStop ==
  LET f == run[1]
  IN f.promptInput # <<>> =>
       \A i \in 1..Len(f.nearbyAttractions[1]) :
         (f.nearbyAttractions[1][i].placeId = <<>> /\ i <= 5) =>
           \E j \in 1..Len(f.promptInput[1].attractions) :
             f.promptInput[1].attractions[j].name = f.nearbyAttractions[1][i].name

\* A step in which TripPlanner hands a plan, or null, to the page.
PlanDelivery == SubmitPlan \/ PlanResolved \/ PlanRejected

\* C33: the page navigates only while it holds a plan, and every delivery
\* of a plan to the page, a cleared plan included, leaves isNavigating false.
C33_NavigatingOnlyWithPlan ==
  /\ [](home.isNavigating => home.tripPlan # <<>>)
  /\ [][PlanDelivery => ~home'.isNavigating]_vars

\* Navigation ran with a watch, and the plan has been cleared since.
C33_Witness ==
  /\ home.tripPlan = <<>> /\ ~home.isNavigating
  /\ geolocation.nextId >= 2 /\ geolocation.watches = {}
  /\ planner.loadingPlan

\* C34: while no submission is under way, the plan the page holds and the
\* plan TripPlanner displays are the same: both null or the same plan.
C34_PageAndPlannerAgree ==
  (~planner.loadingPlan /\ planner.calls = <<>>) => home.tripPlan = planner.tripPlan

\* The attraction of the displayed plan that carries the place id, if any.
hasCheckbox(p, placeId) ==
  /\ p.tripPlan # <<>>
  /\ \E i \in 1..Len(p.tripPlan[1].nearbyAttractions) :
       p.tripPlan[1].nearbyAttractions[i].placeId = <<placeId>>

\* C35: every selected stop is the placeId of an attraction of the
\* displayed plan, and no stop is selected twice.
C35_SelectedStopsAreDisplayed ==
  LET selected == planner.selectedWaypoints
  IN /\ \A i \in 1..Len(selected) : hasCheckbox(planner, selected[i])
     /\ \A i, j \in 1..Len(selected) : selected[i] = selected[j] => i = j

\* C36: at most one generateTripPlan call is awaited at a time: a call
\* under way keeps loadingPlan true, a call starts only while loadingPlan is
\* false, and loadingPlan is false again once the call has settled, with a
\* plan or with a failure.
C36_OneSubmissionAtATime ==
  /\ [](Len(planner.calls) <= 1)
  /\ [](planner.loadingPlan <=> planner.calls # <<>>)
  /\ [][Len(planner'.calls) > Len(planner.calls) => ~planner.loadingPlan]_vars
  /\ (planner.loadingPlan ~> ~planner.loadingPlan)

\* A failed update has settled: the message is shown and nothing loads.
C36_Witness ==
  /\ ~planner.loadingPlan /\ planner.calls = <<>>
  /\ planner.error # <<>> /\ startsWith(planner.error[1], "Trip plan generation failed:")
  /\ planner.selectedWaypoints # <<>>

\* C37: a geolocation watch is active only while the page navigates, never
\* more than one at a time and always the one MapComponent remembers; while
\* the page does not navigate, and in the component mounted after a change
\* of key, no watch is left and currentLocation is null.
C37_WatchOnlyWhileNavigating ==
  /\ [](geolocation.watches # {} => (home.isNavigating /\ mapComponent.isNavigating))
  /\ [](Cardinality(geolocation.watches) <= 1)
  /\ [](\A id \in geolocation.watches : mapComponent.watchIdRef = <<id>>)
  /\ [](~home.isNavigating => (geolocation.watches = {} /\ mapComponent.currentLocation = <<>>))
  /\ [][mapKey(home') # mapKey(home) =>
         (geolocation'.watches = {} /\ mapComponent'.currentLocation = <<>>)]_vars

\* A later watch of the same page reports a position.
C37_Witness ==
  /\ Cardinality(geolocation.watches) = 1
  /\ \A id \in geolocation.watches : id >= 2
  /\ mapComponent.currentLocation # <<>>

\* C38: WeatherDisplay calls fetchWeather once at mount and then once per
\* press of the refresh button, so that the calls started never exceed one
\* plus the presses, and loading is false when no fetch is under way.
C38_FetchOnLoadAndRefreshOnly ==
  /\ weatherDisplay.fetchesStarted <= 1 + weatherDisplay.refreshClicks
  /\ weatherDisplay.inflight = 0 => ~weatherDisplay.loading
====
